---- MODULE Spec2Model ----
(***************************************************************************)
(* Model of the MBOX parser worker (src/src/workers/mbox-parser.worker.ts)  *)
(* and of the MBOX exporter of the design document (src/docs).             *)
(*                                                                         *)
(* A JavaScript string is a sequence of one-character strings, so that the *)
(* regular expressions of the parser act on characters.  JavaScript arrays *)
(* are 0-based and TLA+ sequences 1-based: index i of the source is index  *)
(* i+1 of the model; the loop counter i of parse and the emailIndex of an  *)
(* error keep the source's 0-based values.                                 *)
(***************************************************************************)
EXTENDS Integers, Sequences, FiniteSets, TLC

VARIABLES
    content,        \* e.data.data.content: the buffer of the 'parse' command
    pc,             \* worker position: "idle", "loop" (inside parse), "done"
    rawEmails,      \* parse: const rawEmails = this.splitMBOX(fileContent)
    i,              \* parse: the loop counter (0-based)
    parsedEmails,   \* parse: const parsedEmails
    errors,         \* MBOXParser.errors
    emailCount,     \* MBOXParser.emailCount
    processedBytes, \* parse: let processedBytes
    totalBytes,     \* parse: const totalBytes = fileContent.length
    uidCount,       \* number of uids generateUID has handed out
    faults,         \* number of records whose conversion raised an exception
    outbox,         \* the messages given to self.postMessage, in order
    selection,      \* exportToMBOX: the emails argument
    heap,           \* the header Maps, by reference: email.headers is an index
    finalEmails,    \* exportToMBOX: the finalEmail of every iteration
    blob,           \* exportToMBOX: the text of the Blob returned
    stage,          \* "import", "selected", "exported", "reimport"
    bodyIn,         \* a body text, before the codec is applied
    bodyNow,        \* the body text after the operations ops
    ops,            \* the codec operations applied so far, in order
    commands,       \* number of calls of MBOXParser.parse, one for each 'parse'
                    \* command that self.onmessage has received
    worker,         \* EmailService.worker: NewWorker or Null
    terminated,     \* Worker.terminate() has been called on the service's worker
    delivered,      \* number of posted messages dispatched to the service's listeners
    svcPc,          \* EmailService position: "idle", "reading", "waiting", "returned",
                    \* "rejected"
    files,          \* parseMultipleMBOX: the text of each of the files
    fileNo,         \* parseMultipleMBOX: the loop counter i (0-based)
    allEmails,      \* parseMultipleMBOX: const allEmails
    allErrors,      \* parseMultipleMBOX: const allErrors
    allBytes,       \* parseMultipleMBOX: let totalBytes
    calls,          \* what the caller of the service has seen and done, in order
    inbox,          \* the 'parse' commands posted to the worker and not yet received
    listeners,      \* the completeHandlers added to the worker, in the order added
    onProgressCallback, \* EmailService.onProgressCallback: <<>> or <<the call it is of>>
    promises,       \* the promise of every parseMBOX call, in the order of the calls
    app             \* the state of the App component (useState)

exportVars == <<selection, heap, finalEmails, blob, stage>>

codecVars == <<bodyIn, bodyNow, ops>>

callVars == <<inbox, listeners, onProgressCallback, promises>>

serviceVars == <<worker, terminated, delivered, svcPc, files, fileNo, allEmails,
                 allErrors, allBytes, calls, callVars>>

vars == <<content, pc, rawEmails, i, parsedEmails, errors, emailCount,
          processedBytes, totalBytes, uidCount, faults, outbox, commands, exportVars,
          codecVars, serviceVars, app>>

-----------------------------------------------------------------------------
(* Characters *)

LF == "\n"
CR == "\r"
TAB == "\t"
SP == " "

\* the class \s of a JavaScript regular expression, within the model's alphabet
IsSpace(c) == c \in {SP, TAB, LF, CR}

\* the characters '.' does not match
IsLineTerminator(c) == c \in {LF, CR}

\* String.prototype.toLowerCase on one character of the model's alphabet
LowerChar(c) ==
    CASE c = "F" -> "f"
      [] c = "S" -> "s"
      [] c = "M" -> "m"
      [] c = "I" -> "i"
      [] c = "D" -> "d"
      [] c = "R" -> "r"
      [] c = "C" -> "c"
      [] c = "T" -> "t"
      [] c = "X" -> "x"
      [] OTHER -> c

toLowerCase(s) == [k \in 1..Len(s) |-> LowerChar(s[k])]

\* s.substring(k) with k 0-based: the characters from index k on
Substring(s, k) == SubSeq(s, k + 1, Len(s))

StartsWith(s, p) == Len(s) >= Len(p) /\ SubSeq(s, 1, Len(p)) = p

\* String.prototype.includes
Includes(s, sub) ==
    \E k \in 0..(Len(s) - Len(sub)) : k + Len(sub) <= Len(s) /\ SubSeq(s, k + 1, k + Len(sub)) = sub

\* String.prototype.trim
RECURSIVE TrimStart(_)
TrimStart(s) ==
    IF s # <<>> /\ IsSpace(s[1]) THEN TrimStart(Tail(s)) ELSE s

RECURSIVE TrimEnd(_)
TrimEnd(s) ==
    IF s # <<>> /\ IsSpace(s[Len(s)]) THEN TrimEnd(SubSeq(s, 1, Len(s) - 1)) ELSE s

trim(s) == TrimEnd(TrimStart(s))

\* Array.prototype.join(sep) on an array of strings
RECURSIVE join(_, _)
join(parts, sep) ==
    IF parts = <<>> THEN <<>>
    ELSE IF Len(parts) = 1 THEN parts[1]
    ELSE parts[1] \o sep \o join(Tail(parts), sep)

\* String.prototype.split(sep) for a one-character separator, on text[lo..hi]: the
\* pieces of the two halves, the last piece of the left half running on into the
\* first piece of the right half (the halving keeps the evaluation shallow)
RECURSIVE splitRange(_, _, _, _)
splitRange(text, sep, lo, hi) ==
    IF lo > hi THEN << <<>> >>
    ELSE IF lo = hi THEN (IF text[lo] = sep THEN << <<>>, <<>> >> ELSE << <<text[lo]>> >>)
    ELSE LET mid == (lo + hi) \div 2
             l == splitRange(text, sep, lo, mid)
             r == splitRange(text, sep, mid + 1, hi)
         IN SubSeq(l, 1, Len(l) - 1) \o << l[Len(l)] \o r[1] >> \o Tail(r)

split(text, sep) == splitRange(text, sep, 1, Len(text))

-----------------------------------------------------------------------------
(* MBOXParser: line-ending normalisation and the two regular expressions *)

\* text.replace(/\r\n/g, '\n') on text[lo..hi], by halves; a half never ends
\* between the CR and the LF of a pair
RECURSIVE replaceCRLF(_, _, _)
replaceCRLF(text, lo, hi) ==
    IF lo > hi THEN <<>>
    ELSE IF lo = hi THEN <<text[lo]>>
    ELSE IF hi = lo + 1
         THEN (IF text[lo] = CR /\ text[hi] = LF THEN <<LF>> ELSE <<text[lo], text[hi]>>)
    ELSE LET half == (lo + hi) \div 2
             mid == IF text[half] = CR /\ text[half + 1] = LF THEN half - 1 ELSE half
         IN replaceCRLF(text, lo, mid) \o replaceCRLF(text, mid + 1, hi)

\* text.replace(/\r/g, '\n')
replaceCR(text) == [k \in 1..Len(text) |-> IF text[k] = CR THEN LF ELSE text[k]]

\* a defect: the first replace is missing, so a CRLF pair becomes two LF
normalizeEOLOnlyCR(text) == replaceCR(text)

\* normalizeEOL: text.replace(/\r\n/g, '\n').replace(/\r/g, '\n')
normalizeEOL(text) == replaceCR(replaceCRLF(text, 1, Len(text)))

FromPrefix == <<"F", "r", "o", "m", " ">>

\* FROM_LINE_REGEX.test(line), /^From \S+.*$/: "From ", one non-space character at
\* least, and no line terminator up to the end of the string
FROM_LINE_REGEX(line) ==
    /\ StartsWith(line, FromPrefix)
    /\ Len(line) > Len(FromPrefix)
    /\ ~IsSpace(line[Len(FromPrefix) + 1])
    /\ \A k \in (Len(FromPrefix) + 2)..Len(line) : ~IsLineTerminator(line[k])

\* position of the first ':' of a line, 0 when it has none
RECURSIVE firstColon(_, _)
firstColon(line, k) ==
    IF k > Len(line) THEN 0
    ELSE IF line[k] = ":" THEN k
    ELSE firstColon(line, k + 1)

\* line.match(HEADER_REGEX) is not null, /^([^:\s]+):\s*(.*)$/: a non-empty name
\* without space before the first colon, and no line terminator in group 2
HEADER_REGEX(line) ==
    LET c == firstColon(line, 1) IN
    /\ c > 1
    /\ \A k \in 1..(c - 1) : ~IsSpace(line[k])
    /\ \A k \in 1..Len(TrimStart(Substring(line, c))) :
           ~IsLineTerminator(TrimStart(Substring(line, c))[k])

\* headerMatch[1]
headerMatchName(line) == SubSeq(line, 1, firstColon(line, 1) - 1)

\* headerMatch[2]: \s* is greedy, so the value starts at the first non-space
headerMatchValue(line) == TrimStart(Substring(line, firstColon(line, 1)))

\* /^[ \t]/.test(line)
IsContinuation(line) == line # <<>> /\ line[1] \in {SP, TAB}

-----------------------------------------------------------------------------
(* MBOXParser: the codecs *)

\* length of the run of characters of the set cs that starts at position k
RECURSIVE runLength(_, _, _)
runLength(text, k, cs) ==
    IF k <= Len(text) /\ text[k] \in cs THEN 1 + runLength(text, k + 1, cs) ELSE 0

\* text.replace(/^>+From /gm, (match) => match.substring(1)), scanning from k:
\* with the m flag ^ matches at the start and after a line terminator
RECURSIVE unescapeFrom(_, _)
unescapeFrom(text, k) ==
    IF k > Len(text) THEN <<>>
    ELSE LET n == runLength(text, k, {">"})
             atLineStart == k = 1 \/ IsLineTerminator(text[k - 1])
             matchEnd == k + n + Len(FromPrefix) - 1
         IN IF /\ atLineStart
               /\ n >= 1
               /\ matchEnd <= Len(text)
               /\ SubSeq(text, k + n, matchEnd) = FromPrefix
            THEN Substring(SubSeq(text, k, matchEnd), 1) \o unescapeFrom(text, matchEnd + 1)
            ELSE <<text[k]>> \o unescapeFrom(text, k + 1)

\* a defect: the expression without its m flag, so that ^ is the start of the text
unescapeFromTextStart(text) ==
    LET n == runLength(text, 1, {">"}) IN
    IF n >= 1 /\ n + Len(FromPrefix) <= Len(text)
              /\ SubSeq(text, n + 1, n + Len(FromPrefix)) = FromPrefix
    THEN Tail(text) ELSE text

\* a defect: every '>' before "From " removed, not the first only
RECURSIVE unescapeAllFrom(_, _)
unescapeAllFrom(text, k) ==
    IF k > Len(text) THEN <<>>
    ELSE LET n == runLength(text, k, {">"})
             matchEnd == k + n + Len(FromPrefix) - 1
         IN IF /\ k = 1 \/ IsLineTerminator(text[k - 1])
               /\ n >= 1
               /\ matchEnd <= Len(text)
               /\ SubSeq(text, k + n, matchEnd) = FromPrefix
            THEN FromPrefix \o unescapeAllFrom(text, matchEnd + 1)
            ELSE <<text[k]>> \o unescapeAllFrom(text, k + 1)

unescapeAll(text) == unescapeAllFrom(text, 1)

unescapeFromLines(text) == unescapeFrom(text, 1)

\* /^(>*From )/gm matches at position k: a line start (the start of the text or
\* after a line terminator), any number of '>', "From "
escapeMatch(entry, k) ==
    LET n == runLength(entry, k, {">"})
    IN /\ k = 1 \/ IsLineTerminator(entry[k - 1])
       /\ k + n + Len(FromPrefix) - 1 <= Len(entry)
       /\ SubSeq(entry, k + n, k + n + Len(FromPrefix) - 1) = FromPrefix

\* content.replace(/^(>*From )/gm, '>$1') on entry[lo..hi], by halves: a '>' is
\* put before every match and the match is kept; no match holds a line start, so
\* the matches are the positions where the expression matches
RECURSIVE escapeFrom(_, _, _)
escapeFrom(entry, lo, hi) ==
    IF lo > hi THEN <<>>
    ELSE IF lo = hi
         THEN (IF escapeMatch(entry, lo) THEN <<">", entry[lo]>> ELSE <<entry[lo]>>)
    ELSE escapeFrom(entry, lo, (lo + hi) \div 2) \o escapeFrom(entry, (lo + hi) \div 2 + 1, hi)

\* a defect: /^(From )/gm, which leaves a line that has a '>' already as it is
RECURSIVE escapePlainFrom(_, _, _)
escapePlainFrom(entry, lo, hi) ==
    IF lo > hi THEN <<>>
    ELSE IF lo = hi
         THEN (IF escapeMatch(entry, lo) /\ entry[lo] # ">" THEN <<">", entry[lo]>>
                                                              ELSE <<entry[lo]>>)
    ELSE escapePlainFrom(entry, lo, (lo + hi) \div 2)
         \o escapePlainFrom(entry, (lo + hi) \div 2 + 1, hi)

escapeFromPlain(entry) == escapePlainFrom(entry, 1, Len(entry))

\* MBOXExporter.escapeFromLines
escapeFromLines(entry) == escapeFrom(entry, 1, Len(entry))

\* value.replace(/\r?\n[ \t]+/g, ' '), scanning from k
RECURSIVE replaceFolds(_, _)
replaceFolds(value, k) ==
    IF k > Len(value) THEN <<>>
    ELSE LET nl == IF value[k] = LF THEN 1
                   ELSE IF value[k] = CR /\ k < Len(value) /\ value[k + 1] = LF THEN 2
                   ELSE 0
             ws == IF nl > 0 THEN runLength(value, k + nl, {SP, TAB}) ELSE 0
         IN IF nl > 0 /\ ws >= 1
            THEN <<SP>> \o replaceFolds(value, k + nl + ws)
            ELSE <<value[k]>> \o replaceFolds(value, k + 1)

\* a defect: the unfolding without its trim()
unfoldHeaderNoTrim(value) == replaceFolds(value, 1)

unfoldHeader(value) == trim(replaceFolds(value, 1))

-----------------------------------------------------------------------------
(* MBOXParser: the header table, a Map<string, string[]> in insertion order *)

\* null and undefined: a value no string equals
Null == <<"null">>

\* the value undefined
Undefined == <<"undefined">>

\* the truthiness of a string | null
Truthy(v) == v # Null /\ v # <<>>

mapHas(headers, key) == \E k \in 1..Len(headers) : headers[k].name = key

mapGet(headers, key) ==
    headers[CHOOSE k \in 1..Len(headers) : headers[k].name = key].values

addHeader(headers, name, value) ==
    LET normalized == toLowerCase(name)
        unfolded == unfoldHeader(value)
    IN IF ~mapHas(headers, normalized)
       THEN Append(headers, [name |-> normalized, values |-> <<unfolded>>])
       ELSE [k \in 1..Len(headers) |->
                IF headers[k].name = normalized
                THEN [headers[k] EXCEPT !.values = Append(@, unfolded)]
                ELSE headers[k]]

getHeader(headers, name) ==
    IF mapHas(headers, toLowerCase(name)) THEN mapGet(headers, toLowerCase(name))[1] ELSE Null

\* The Record<string, string[]> has the Map's entries in the Map's order (no header
\* name of the model's alphabet is an integer index, which an object would reorder)
serializeHeaders(headers) == headers

-----------------------------------------------------------------------------
(* MBOXParser.extractMetadata *)

hSubject == <<"S", "u", "b", "j", "e", "c", "t">>
hMessageID == <<"M", "e", "s", "s", "a", "g", "e", "-", "I", "D">>
hInReplyTo == <<"I", "n", "-", "R", "e", "p", "l", "y", "-", "T", "o">>
hReferences == <<"R", "e", "f", "e", "r", "e", "n", "c", "e", "s">>
hContentType == <<"C", "o", "n", "t", "e", "n", "t", "-", "T", "y", "p", "e">>
textHtml == <<"t", "e", "x", "t", "/", "h", "t", "m", "l">>
NoSubject == <<"(", "N", "o", " ", "S", "u", "b", "j", "e", "c", "t", ")">>

\* str.split(/\s+/).filter(Boolean): the maximal runs of non-space characters
RECURSIVE splitSpaces(_, _, _)
splitSpaces(str, k, cur) ==
    IF k > Len(str) THEN (IF cur = <<>> THEN <<>> ELSE <<cur>>)
    ELSE IF IsSpace(str[k])
         THEN (IF cur = <<>> THEN <<>> ELSE <<cur>>) \o splitSpaces(str, k + 1, <<>>)
    ELSE splitSpaces(str, k + 1, Append(cur, str[k]))

\* the classes [A-Za-z], \w, [\w.%+-] and [\w.-] of emailRegex
LetterChars ==
    {"A", "B", "C", "D", "E", "F", "G", "H", "I", "J", "K", "L", "M",
     "N", "O", "P", "Q", "R", "S", "T", "U", "V", "W", "X", "Y", "Z",
     "a", "b", "c", "d", "e", "f", "g", "h", "i", "j", "k", "l", "m",
     "n", "o", "p", "q", "r", "s", "t", "u", "v", "w", "x", "y", "z"}

DigitChars == {"0", "1", "2", "3", "4", "5", "6", "7", "8", "9"}

WordChars == LetterChars \cup DigitChars \cup {"_"}

LocalChars == WordChars \cup {".", "%", "+", "-"}

DomainChars == WordChars \cup {".", "-"}

\* [\w.%+-]+@[\w.-]+\.[A-Za-z]{2,} matched at position p: the position of the
\* last character of the match, 0 when there is none.  The local part is the whole
\* run before the '@'; the greedy [\w.-]+ gives way up to the last '.' that two
\* letters follow, and [A-Za-z]{2,} takes every letter after it.
addressEnd(s, p) ==
    LET l == runLength(s, p, LocalChars)
        a == p + l + 1
        d == runLength(s, a, DomainChars)
        dots == {q \in (a + 1)..(a + d - 1) :
                    s[q] = "." /\ runLength(s, q + 1, LetterChars) >= 2}
        last == CHOOSE q \in dots : \A r \in dots : r <= q
    IN IF l = 0 \/ p + l > Len(s) \/ s[p + l] # "@" \/ dots = {} THEN 0
       ELSE last + runLength(s, last + 1, LetterChars)

\* the while loop of emailRegex.exec from position p: match[1] of every match of
\* /<?(...)>?/g, the next search starting after the match
RECURSIVE scanAddresses(_, _)
scanAddresses(s, p) ==
    IF p > Len(s) THEN <<>>
    ELSE LET start == IF s[p] = "<" THEN p + 1 ELSE p
             e == addressEnd(s, start)
         IN IF e > 0
            THEN <<SubSeq(s, start, e)>>
                 \o scanAddresses(s, IF e < Len(s) /\ s[e + 1] = ">" THEN e + 2 ELSE e + 1)
            ELSE scanAddresses(s, p + 1)

parseAddresses(headerValue) ==
    IF headerValue = <<>> THEN <<>>
    ELSE IF Len(scanAddresses(headerValue, 1)) > 0 THEN scanAddresses(headerValue, 1)
    ELSE <<trim(headerValue)>>

\* the date strings of the model's inputs that Date.parse takes, with the value
\* toISOString gives for them: the date of the unit tests and an ISO date
dateOfTests ==
    <<"M", "o", "n", ",", " ", "1", " ", "J", "a", "n", " ", "2", "0", "2", "4", " ", "1",
      "0", ":", "0", "0", ":", "0", "0", " ", "+", "0", "0", "0", "0">>
isoOfTests ==
    <<"2", "0", "2", "4", "-", "0", "1", "-", "0", "1", "T", "1", "0", ":", "0", "0", ":",
      "0", "0", ".", "0", "0", "0", "Z">>
dateIso == <<"2", "0", "2", "4", "-", "0", "1", "-", "0", "1">>
isoOfDateIso ==
    <<"2", "0", "2", "4", "-", "0", "1", "-", "0", "1", "T", "0", "0", ":", "0", "0", ":",
      "0", "0", ".", "0", "0", "0", "Z">>

KnownDates == {[str |-> dateOfTests, iso |-> isoOfTests], [str |-> dateIso, iso |-> isoOfDateIso]}

\* the time value of an Invalid Date, and the exception toISOString raises for it
NaN == <<"NaN">>
RangeError == <<"RangeError">>

\* new Date(dateStr): the entry of the table, NaN for every other string
newDate(dateStr) ==
    IF \E d \in KnownDates : d.str = dateStr
    THEN CHOOSE d \in KnownDates : d.str = dateStr
    ELSE [str |-> dateStr, iso |-> NaN]

toISOString(d) == IF d.iso = NaN THEN RangeError ELSE d.iso

\* a defect: parseDate without its try and catch
parseDateNoCatch(dateStr) ==
    IF ~Truthy(dateStr) THEN Null ELSE toISOString(newDate(dateStr))

parseDate(dateStr) ==
    IF ~Truthy(dateStr) THEN Null
    ELSE IF toISOString(newDate(dateStr)) = RangeError THEN Null
    ELSE toISOString(newDate(dateStr))

hDate == <<"D", "a", "t", "e">>
hFrom == <<"F", "r", "o", "m">>
hTo == <<"T", "o">>
hCc == <<"C", "c">>

extractMetadata(headers) ==
    [date |-> parseDate(getHeader(headers, hDate)),
     from |-> parseAddresses(IF Truthy(getHeader(headers, hFrom))
                             THEN getHeader(headers, hFrom) ELSE <<>>),
     to |-> parseAddresses(IF Truthy(getHeader(headers, hTo))
                           THEN getHeader(headers, hTo) ELSE <<>>),
     cc |-> parseAddresses(IF Truthy(getHeader(headers, hCc))
                           THEN getHeader(headers, hCc) ELSE <<>>),
     subject |-> IF Truthy(getHeader(headers, hSubject))
                 THEN getHeader(headers, hSubject) ELSE NoSubject,
     inReplyTo |-> IF Truthy(getHeader(headers, hInReplyTo))
                   THEN getHeader(headers, hInReplyTo) ELSE Null,
     references |-> IF getHeader(headers, hReferences) # Null
                    THEN splitSpaces(getHeader(headers, hReferences), 1, <<>>) ELSE <<>>]

-----------------------------------------------------------------------------
(* MBOXParser.parseEmail *)

\* a defect: a line that is no field line ends the field in progress
RECURSIVE headerLoopEndsField(_, _, _, _, _, _)
headerLoopEndsField(lines, j, headers, currentHeader, currentValue, bodyStart) ==
    IF j >= Len(lines) THEN [headers |-> headers, bodyStart |-> bodyStart]
    ELSE LET line == lines[j + 1]
             added == IF currentHeader # Null
                      THEN addHeader(headers, currentHeader, join(currentValue, <<LF>>))
                      ELSE headers
         IN IF line = <<>> THEN [headers |-> added, bodyStart |-> j + 1]
            ELSE IF IsContinuation(line)
            THEN headerLoopEndsField(lines, j + 1, headers, currentHeader,
                                     IF currentHeader # Null THEN Append(currentValue, line)
                                                             ELSE currentValue,
                                     bodyStart)
            ELSE IF HEADER_REGEX(line)
            THEN headerLoopEndsField(lines, j + 1, added, headerMatchName(line),
                                     <<headerMatchValue(line)>>, bodyStart)
            ELSE headerLoopEndsField(lines, j + 1, added, Null, <<>>, bodyStart)

\* The for loop over the header block.  j is the loop counter (0-based), the result
\* the header table and bodyStart when the loop is left.
RECURSIVE headerLoop(_, _, _, _, _, _)
headerLoop(lines, j, headers, currentHeader, currentValue, bodyStart) ==
    IF j >= Len(lines) THEN [headers |-> headers, bodyStart |-> bodyStart]
    ELSE LET line == lines[j + 1] IN
         IF line = <<>>
         THEN [headers |-> IF currentHeader # Null
                           THEN addHeader(headers, currentHeader, join(currentValue, <<LF>>))
                           ELSE headers,
               bodyStart |-> j + 1]
         ELSE IF IsContinuation(line)
         THEN headerLoop(lines, j + 1, headers, currentHeader,
                         IF currentHeader # Null THEN Append(currentValue, line)
                                                 ELSE currentValue,
                         bodyStart)
         ELSE IF HEADER_REGEX(line)
         THEN headerLoop(lines, j + 1,
                         IF currentHeader # Null
                         THEN addHeader(headers, currentHeader, join(currentValue, <<LF>>))
                         ELSE headers,
                         headerMatchName(line), <<headerMatchValue(line)>>, bodyStart)
         ELSE headerLoop(lines, j + 1, headers, currentHeader, currentValue, bodyStart)

\* the generated `<generated-${this.emailCount}@eama>`
generatedId(n) == <<"<generated-", n, "@eama>">>

\* the body of the try block: the ParsedEmail returned for a record
parseEmail(rawEmail, index, count, uid) ==
    LET normalized == normalizeEOL(rawEmail)
        lines == split(normalized, LF)
        headerStart == IF FROM_LINE_REGEX(lines[1]) THEN 1 ELSE 0
        loop == headerLoop(lines, headerStart, <<>>, Null, <<>>, headerStart)
        headers == loop.headers
        bodyLines == SubSeq(lines, loop.bodyStart + 1, Len(lines))
        rawBody == join(bodyLines, <<LF>>)
        unescapedBody == unescapeFromLines(rawBody)
    IN [uid |-> uid,
        messageId |-> IF Truthy(getHeader(headers, hMessageID))
                      THEN getHeader(headers, hMessageID) ELSE generatedId(count),
        headers |-> serializeHeaders(headers),
        body |-> [text |-> unescapedBody,
                  html |-> IF getHeader(headers, hContentType) # Null
                              /\ Includes(getHeader(headers, hContentType), textHtml)
                           THEN unescapedBody ELSE <<>>,
                  raw |-> rawBody],
        metadata |-> extractMetadata(headers),
        rawSize |-> Len(rawEmail)]

\* a defect: the error of the catch block under another type
criticalErrorMistyped(index) ==
    [type |-> "MALFORMED_HEADER", message |-> <<"Failed to parse email", index>>,
     emailIndex |-> index]

\* a defect: the error of the catch block with a 1-based index
criticalErrorOneBased(index) ==
    [type |-> "CRITICAL", message |-> <<"Failed to parse email", index + 1>>,
     emailIndex |-> index + 1]

\* the catch block: the ParseError pushed when converting record index failed
criticalError(index) ==
    [type |-> "CRITICAL", message |-> <<"Failed to parse email", index>>, emailIndex |-> index]

-----------------------------------------------------------------------------
(* MBOXParser.splitMBOX *)

\* a defect: the delimiter test without the blank-line condition
isDelimiterNoBlank(lines, k) == FROM_LINE_REGEX(lines[k + 1])

\* the condition of line 204: line k (0-based) opens a record
isDelimiter(lines, k) ==
    FROM_LINE_REGEX(lines[k + 1]) /\ (k = 0 \/ lines[k] = <<>>)

\* The for loop over the lines of the container; k is the loop counter (0-based).
RECURSIVE splitLoop(_, _, _, _, _)
splitLoop(lines, k, emails, currentEmail, inEmail) ==
    IF k >= Len(lines)
    THEN IF Len(currentEmail) > 0 THEN Append(emails, join(currentEmail, <<LF>>)) ELSE emails
    ELSE LET line == lines[k + 1] IN
         IF isDelimiter(lines, k)
         THEN splitLoop(lines, k + 1,
                        IF Len(currentEmail) > 0
                        THEN Append(emails, join(currentEmail, <<LF>>)) ELSE emails,
                        <<line>>, TRUE)
         ELSE IF inEmail
         THEN splitLoop(lines, k + 1, emails, Append(currentEmail, line), inEmail)
         ELSE splitLoop(lines, k + 1, emails, currentEmail, inEmail)

\* a defect: the push after the loop without its length test
splitMBOXFlushAlways(text) ==
    LET emails == splitLoop(split(normalizeEOL(text), LF), 0, <<>>, <<>>, FALSE)
    IN IF emails = <<>> THEN <<join(<<>>, <<LF>>)>> ELSE emails

\* a defect: every record trimmed of the blank lines that end it
splitMBOXTrimmed(text) ==
    LET emails == splitLoop(split(normalizeEOL(text), LF), 0, <<>>, <<>>, FALSE)
    IN [n \in 1..Len(emails) |-> TrimEnd(emails[n])]

splitMBOX(text) == splitLoop(split(normalizeEOL(text), LF), 0, <<>>, <<>>, FALSE)

-----------------------------------------------------------------------------
(* The inputs: containers of at most MaxLines lines of a vocabulary, joined by LF,
   and the containers of the unit tests and of the design document's test suite *)

MaxLines == 3
MaxFaults == 1
ManyRecords == 11

lnFromA == <<"F", "r", "o", "m", " ", "a">>
lnBlank == <<>>
lnSubjectX == <<"S", "u", "b", "j", "e", "c", "t", ":", " ", "x">>
lnLowerSubjectZ == <<"s", "u", "b", "j", "e", "c", "t", ":", " ", "z", " ">>
lnCont == <<" ", "y">>
lnBad == <<"b", "a", "d">>
lnEsc1 == <<">", "F", "r", "o", "m", " ", "b">>
lnEsc2 == <<">", ">", "F", "r", "o", "m", " ", "b">>
lnFromSpace == <<"F", "r", "o", "m", " ", " ", "c">>
lnTabCont == <<"\t", " ", "y", " ">>
lnSpaceOnly == <<" ">>
lnFromB == <<"F", "r", "o", "m", " ", "b">>
lnEsc3 == <<">", ">", ">", "F", "r", "o", "m", " ", "z">>
lnSubjectEmpty == <<"S", "u", "b", "j", "e", "c", "t", ":">>
lnBody == <<"h", "i">>
lnFromAddrs ==
    <<"F", "r", "o", "m", ":", " ", "a", "@", "b", ".", "c", "o", ",", " ", "B", "o", "b">>
lnToAddr ==
    <<"T", "o", ":", " ", "<", "c", ".", "d", "@", "e", "-", "f", ".", "o", "r", "g", ">",
      ",", " ", "g", "@", "h", ".", "i", "o">>
lnCcName == <<"C", "c", ":", " ", "B", "o", "b">>
lnRefs ==
    <<"R", "e", "f", "e", "r", "e", "n", "c", "e", "s", ":", " ", "<", "a", ">", " ", "j",
      "u", "n", "k", " ", " ", "<", "a", ">">>
lnDateJunk == <<"D", "a", "t", "e", ":", " ", "j", "u", "n", "k">>
lnDateIso == <<"D", "a", "t", "e", ":", " ", "2", "0", "2", "4", "-", "0", "1", "-", "0", "1">>
lnDateTests ==
    <<"D", "a", "t", "e", ":", " ", "M", "o", "n", ",", " ", "1", " ", "J", "a", "n", " ",
      "2", "0", "2", "4", " ", "1", "0", ":", "0", "0", ":", "0", "0", " ", "+", "0", "0",
      "0", "0">>

lnMessageId == <<"M", "e", "s", "s", "a", "g", "e", "-", "I", "D", ":", " ", "<", "m", ">">>
lnMessageIdLower ==
    <<"m", "e", "s", "s", "a", "g", "e", "-", "i", "d", ":", " ", "<", "n", ">">>

Vocabulary ==
    {lnFromA, lnBlank, lnSubjectX, lnLowerSubjectZ, lnCont, lnBad, lnEsc1, lnEsc2,
     lnFromSpace}

\* tests/unit/mbox-parser.test.ts, 'should parse multiple emails'
scTwoEmails ==
    <<lnFromA, lnSubjectX, lnBlank, lnBody, lnBlank, lnFromB, lnLowerSubjectZ, lnBlank, lnBody>>

\* the design document's 'should handle folded headers', with two continuations
scFolded == <<lnFromA, lnSubjectX, lnCont, lnTabCont, lnBlank, lnBody>>

\* tests/unit/mbox-parser.test.ts, 'should unescape From lines in body'
scEscaped == <<lnFromA, lnSubjectX, lnBlank, lnEsc1, lnBody, lnEsc2, lnEsc3, lnFromB>>

\* a folded header whose last continuation is blank and whose value starts empty
scFoldedEdge == <<lnFromA, lnSubjectEmpty, lnCont, lnSpaceOnly, lnBad, lnCont, lnBlank>>

\* lines before the first delimiter, then two records
scLeading == <<lnBad, lnSubjectX, lnBlank, lnFromA, lnSubjectX, lnBlank, lnFromB, lnBlank>>

\* ManyRecords records of a delimiter line and a blank line: more than the ten
\* records between two progress messages
scMany == [k \in 1..(2 * ManyRecords) |-> IF k % 2 = 1 THEN lnFromA ELSE lnBlank]

\* a record with address lists, References and a Date that is no date
scMetadata ==
    <<lnFromA, lnFromAddrs, lnToAddr, lnCcName, lnRefs, lnDateJunk, lnSubjectX, lnBlank, lnBody>>

\* a record with an address list, an empty Subject and the Date of the unit tests
scDated == <<lnFromA, lnToAddr, lnSubjectEmpty, lnDateTests, lnBlank, lnBody>>

\* a record with an ISO date and one with a Date that is no date
scDates == <<lnFromA, lnDateIso, lnBlank, lnBody, lnBlank, lnFromB, lnDateJunk, lnBlank>>

\* a record with two Message-ID fields, one with none, and one whose Message-ID is
\* its last line
scIds ==
    <<lnFromA, lnMessageId, lnMessageIdLower, lnBlank, lnBody, lnBlank, lnFromB, lnSubjectX,
      lnBlank, lnFromA, lnMessageId>>

\* a continuation before any field, and one that follows a line without a colon
scContinuations ==
    <<lnFromA, lnCont, lnSubjectX, lnBad, lnTabCont, lnLowerSubjectZ, lnCont, lnBlank, lnBody>>

\* a "From " line inside a record, after a line that is not blank, and two records
scInnerFrom == <<lnFromA, lnSubjectX, lnFromB, lnBlank, lnFromB>>

Scenarios ==
    {scTwoEmails, scFolded, scEscaped, scFoldedEdge, scLeading, scMany, scMetadata, scDated,
     scDates, scIds, scContinuations, scInnerFrom}

LineSeqs == UNION {[1..n -> Vocabulary] : n \in 0..MaxLines} \cup Scenarios

\* every line sequence joined by LF, the scenarios also by CRLF and by CR
Containers ==
    {join(ls, <<LF>>) : ls \in LineSeqs}
    \cup {join(ls, <<CR, LF>>) : ls \in Scenarios}
    \cup {join(ls, <<CR>>) : ls \in Scenarios}

-----------------------------------------------------------------------------
(* The worker: self.onmessage and MBOXParser.parse *)

\* the worker before its first command
WorkerStart ==
    /\ pc = "idle"
    /\ rawEmails = <<>>
    /\ i = 0
    /\ parsedEmails = <<>>
    /\ errors = <<>>
    /\ emailCount = 0
    /\ processedBytes = 0
    /\ totalBytes = 0
    /\ uidCount = 0
    /\ faults = 0
    /\ outbox = <<>>
    /\ commands = 0

\* nothing selected for export, nothing exported
ExporterStart ==
    /\ selection = <<>>
    /\ heap = <<>>
    /\ finalEmails = <<>>
    /\ blob = <<>>
    /\ stage = "import"

\* no body text under the codec
CodecStart == bodyIn = <<>> /\ bodyNow = <<>> /\ ops = <<>>

\* new Worker(new URL('../workers/mbox-parser.worker.ts', import.meta.url))
NewWorker == <<"worker">>

\* the EmailService after its constructor (initializeWorker), before any call
ServiceConstructed ==
    /\ worker = NewWorker
    /\ terminated = FALSE
    /\ delivered = 0
    /\ svcPc = "idle"
    /\ fileNo = 0
    /\ allEmails = <<>>
    /\ allErrors = <<>>
    /\ allBytes = 0
    /\ calls = <<>>
    /\ inbox = <<>>
    /\ listeners = <<>>
    /\ onProgressCallback = <<>>
    /\ promises = <<>>

\* App before the first upload: useState(null), useState([]), useState([])
AppStart ==
    app = [parseResult |-> <<>>, selectedEmails |-> <<>>, workingSet |-> <<>>,
           isLoading |-> FALSE]

\* a service that is given no file
ServiceStart == ServiceConstructed /\ files = <<>>

Init ==
    /\ content \in Containers
    /\ WorkerStart
    /\ ExporterStart
    /\ CodecStart
    /\ ServiceStart
    /\ AppStart

\* generateUID: `eama-${Date.now()}-${random}`, the n-th uid handed out
generateUID(n) == <<"eama-", n>>

\* new MBOXParser(): private emailCount = 0, private errors = []
newMBOXParser == [emailCount |-> 0, errors |-> <<>>]

\* self.onmessage with command 'parse', up to the for loop of parse: a new
\* MBOXParser (emailCount 0, no errors), the framing, totalBytes
OnMessage ==
    /\ pc = "idle"
    /\ content # Undefined
    /\ commands' = commands + 1
    /\ pc' = "loop"
    /\ emailCount' = newMBOXParser.emailCount
    /\ errors' = newMBOXParser.errors
    /\ rawEmails' = splitMBOX(content)
    /\ parsedEmails' = <<>>
    /\ totalBytes' = Len(content)
    /\ processedBytes' = 0
    /\ i' = 0
    /\ UNCHANGED <<content, uidCount, faults, outbox, exportVars, codecVars, serviceVars, app>>

\* a defect: unshift in the place of push
unshiftEmail(emails, parsed) == <<parsed>> \o emails

\* parsedEmails.push(parsed)
pushEmail(emails, parsed) == Append(emails, parsed)

\* a defect: the message after a record posted with the type of the final one
progressAsComplete(subject, count, bytes, total) ==
    [type |-> "complete",
     data |-> [emailsProcessed |-> count, bytesProcessed |-> bytes]]

\* a defect: emailsProcessed counts the records, not the messages
progressCountsRecords(subject, count, bytes, total) ==
    [type |-> "progress",
     percent |-> [num |-> bytes * 100, den |-> total],
     emailsProcessed |-> i + 1,
     bytesProcessed |-> bytes,
     currentEmail |-> subject]

\* a defect: percent as totalBytes / processedBytes
progressInverted(subject, count, bytes, total) ==
    [type |-> "progress",
     percent |-> [num |-> total * 100, den |-> bytes],
     emailsProcessed |-> count,
     bytesProcessed |-> bytes,
     currentEmail |-> subject]

\* the 'progress' message posted after record i; subject is parsed?.metadata.subject
progressMessage(subject, count, bytes, total) ==
    [type |-> "progress",
     percent |-> [num |-> bytes * 100, den |-> total],
     emailsProcessed |-> count,
     bytesProcessed |-> bytes,
     currentEmail |-> subject]

\* a defect: the notification after the last record is missing
progressEveryTen(idx, count) == idx % 10 = 0

\* the condition of line 240: i % 10 === 0 || i === rawEmails.length - 1
progressDue(idx, count) == idx % 10 = 0 \/ idx = count - 1

\* One iteration of the for loop of parse.  throws: the try block of parseEmail
\* raised an exception (the runtime's RangeError on an allocation, for one), which
\* its catch block turns into a CRITICAL error and a null result.
ParseRecord ==
    /\ pc = "loop"
    /\ i < Len(rawEmails)
    /\ \E throws \in BOOLEAN :
         /\ throws => faults < MaxFaults
         /\ LET rawEmail == rawEmails[i + 1]
                parsed == parseEmail(rawEmail, i, emailCount, generateUID(uidCount))
                count == IF throws THEN emailCount ELSE emailCount + 1
                bytes == processedBytes + Len(rawEmail)
            IN /\ errors' = IF throws THEN Append(errors, criticalError(i)) ELSE errors
               /\ faults' = IF throws THEN faults + 1 ELSE faults
               /\ uidCount' = IF throws THEN uidCount ELSE uidCount + 1
               /\ parsedEmails' = IF throws THEN parsedEmails
                                  ELSE pushEmail(parsedEmails, parsed)
               /\ emailCount' = count
               /\ processedBytes' = bytes
               /\ outbox' = IF progressDue(i, Len(rawEmails))
                            THEN Append(outbox,
                                        progressMessage(IF throws THEN Null
                                                        ELSE parsed.metadata.subject,
                                                        count, bytes, totalBytes))
                            ELSE outbox
    /\ i' = i + 1
    /\ UNCHANGED <<content, pc, rawEmails, totalBytes, commands, exportVars, codecVars,
                   serviceVars, app>>

\* a / b on JavaScript numbers, a and b non-negative integers: the quotient as a
\* fraction, NaN for 0 / 0 and Infinity for a / 0
jsDivide(a, b) ==
    IF b # 0 THEN [kind |-> "finite", num |-> a, den |-> b]
    ELSE IF a = 0 THEN [kind |-> "NaN", num |-> 0, den |-> 0]
    ELSE [kind |-> "Infinity", num |-> a, den |-> 0]

\* the ParseResult; parseTime is a wall-clock duration and not modelled
parseResult ==
    [emails |-> parsedEmails,
     errors |-> errors,
     stats |-> [totalEmails |-> Len(parsedEmails),
                totalBytes |-> totalBytes,
                avgEmailSize |-> jsDivide(totalBytes, Len(parsedEmails))]]

\* the for loop is left: parse returns and onmessage posts 'complete'
Complete ==
    /\ pc = "loop"
    /\ i >= Len(rawEmails)
    /\ outbox' = Append(outbox, [type |-> "complete", data |-> parseResult])
    /\ pc' = "done"
    /\ UNCHANGED <<content, rawEmails, i, parsedEmails, errors, emailCount,
                   processedBytes, totalBytes, uidCount, faults, commands, exportVars,
                   codecVars, serviceVars, app>>

Next == OnMessage \/ ParseRecord \/ Complete

Spec == Init /\ [][Next]_vars

-----------------------------------------------------------------------------
(* The escape codec on body texts: escapeFromLines of the exporter and
   unescapeFromLines of the parser, applied one after the other *)

MaxBodyLines == 3
MaxOps == 2

lnCrFrom == <<"h", CR, ">", "F", "r", "o", "m", " ", "b">>
lnNoSpace == <<">", "F", "r", "o", "m">>

BodyVocabulary == {lnBody, lnBlank, lnFromB, lnEsc1, lnEsc2, lnCrFrom, lnNoSpace}

\* the body texts: at most MaxBodyLines lines of the vocabulary, joined by LF
BodyTexts ==
    {join(ls, <<LF>>) : ls \in UNION {[1..n -> BodyVocabulary] : n \in 0..MaxBodyLines}}

InitCodec ==
    /\ bodyIn \in BodyTexts
    /\ bodyNow = bodyIn
    /\ ops = <<>>
    /\ content = <<>>
    /\ WorkerStart
    /\ ExporterStart
    /\ ServiceStart
    /\ AppStart

workerVars == <<content, pc, rawEmails, i, parsedEmails, errors, emailCount,
                processedBytes, totalBytes, uidCount, faults, outbox, commands>>

\* the exporter encodes the text
Escape ==
    /\ Len(ops) < MaxOps
    /\ bodyNow' = escapeFromLines(bodyNow)
    /\ ops' = Append(ops, "escape")
    /\ UNCHANGED <<bodyIn, workerVars, exportVars, serviceVars, app>>

\* the parser decodes the text
Unescape ==
    /\ Len(ops) < MaxOps
    /\ bodyNow' = unescapeFromLines(bodyNow)
    /\ ops' = Append(ops, "unescape")
    /\ UNCHANGED <<bodyIn, workerVars, exportVars, serviceVars, app>>

NextCodec == Escape \/ Unescape

SpecCodec == InitCodec /\ [][NextCodec]_vars

-----------------------------------------------------------------------------
(* MBOXExporter.  An Email refers to its header Map: email.headers is an index
   of heap, so that a copy that shares the Map differs from one that does not *)

\* Map.prototype.set: the value of an existing key replaced in its place, a new
\* key added at the end
mapSet(headers, key, values) ==
    IF mapHas(headers, key)
    THEN [k \in 1..Len(headers) |->
             IF headers[k].name = key THEN [name |-> key, values |-> values]
                                      ELSE headers[k]]
    ELSE Append(headers, [name |-> key, values |-> values])

\* a defect: a copy of the Email that shares its header Map ({ ...email })
shallowClone(h, email) == [heap |-> h, email |-> email]

\* structuredClone(email): a deep copy, with a header Map of its own
structuredClone(h, email) ==
    [heap |-> Append(h, h[email.headers]),
     email |-> [email EXCEPT !.headers = Len(h) + 1]]

\* the for loop over the entries of temporaryEdits, on the Map at ref
RECURSIVE applyEdits(_, _, _)
applyEdits(h, ref, entries) ==
    IF entries = <<>> THEN h
    ELSE applyEdits([h EXCEPT ![ref] = mapSet(@, entries[1].header, <<entries[1].newValue>>)],
                    ref, Tail(entries))

\* the heap after the call and the Email returned
applyTemporaryEdits(h, email) ==
    IF ~email.temporaryEdits.present THEN [heap |-> h, email |-> email]
    ELSE LET edited == structuredClone(h, email)
         IN [heap |-> applyEdits(edited.heap, edited.email.headers,
                                 email.temporaryEdits.entries),
             email |-> edited.email]

\* a minimal delimiter line: the Email keeps no sender token and no date of its own
delimiterLine == <<"F", "r", "o", "m", " ", "-">>

\* one physical line "name: value" per value, in the order of the Map
RECURSIVE headerLines(_)
headerLines(headers) ==
    IF headers = <<>> THEN <<>>
    ELSE [v \in 1..Len(headers[1].values) |->
             headers[1].name \o <<":", SP>> \o headers[1].values[v]]
         \o headerLines(Tail(headers))

\* generateMBOXEntry: the delimiter line, the header lines, an empty line, the body
generateMBOXEntry(h, email) ==
    join(<<delimiterLine>> \o headerLines(h[email.headers]) \o << <<>>, email.body.text >>,
         <<LF>>)

\* the for loop of exportToMBOX from email k (1-based) on
RECURSIVE exportLoop(_, _, _, _, _)
exportLoop(h, emails, k, finals, chunks) ==
    IF k > Len(emails) THEN [heap |-> h, finalEmails |-> finals, chunks |-> chunks]
    ELSE LET applied == applyTemporaryEdits(h, emails[k])
             mboxEntry == generateMBOXEntry(applied.heap, applied.email)
             escapedEntry == escapeFromLines(mboxEntry)
         IN exportLoop(applied.heap, emails, k + 1, Append(finals, applied.email),
                       Append(chunks, escapedEntry))

\* new Blob(chunks): the chunks one after the other
exportToMBOX(h, emails) ==
    LET done == exportLoop(h, emails, 1, <<>>, <<>>)
    IN [heap |-> done.heap, finalEmails |-> done.finalEmails,
        blob |-> join(done.chunks, <<>>)]

MaxExportLines == 3

hNew == <<"x", "-", "n", "e", "w">>
vNew == <<"n", "e", "w">>
vOther == <<"v">>

\* temporaryEdits: undefined, or a Map of header name to new value
NoEdits == [present |-> FALSE, entries |-> <<>>]

EditOverlays ==
    {NoEdits,
     [present |-> TRUE, entries |-> <<>>],
     [present |-> TRUE, entries |-> <<[header |-> toLowerCase(hSubject), newValue |-> vNew]>>],
     [present |-> TRUE, entries |-> <<[header |-> hNew, newValue |-> vOther]>>],
     [present |-> TRUE, entries |-> <<[header |-> hNew, newValue |-> vOther],
                                      [header |-> toLowerCase(hSubject), newValue |-> vNew]>>],
     [present |-> TRUE, entries |-> <<[header |-> hSubject, newValue |-> vNew]>>]}

ExportContainers ==
    {join(ls, <<LF>>) :
        ls \in UNION {[1..n -> Vocabulary] : n \in 0..MaxExportLines} \cup Scenarios}

InitExport ==
    /\ content \in ExportContainers
    /\ WorkerStart
    /\ ExporterStart
    /\ CodecStart
    /\ ServiceStart
    /\ AppStart

\* an Email of the parse result, with the overlay the user has made, is selected
Select ==
    /\ stage = "import"
    /\ pc = "done"
    /\ \E k \in 1..Len(parsedEmails), edits \in EditOverlays :
          /\ heap' = <<parsedEmails[k].headers>>
          /\ selection' = <<[uid |-> parsedEmails[k].uid,
                              messageId |-> parsedEmails[k].messageId,
                              headers |-> 1,
                              body |-> parsedEmails[k].body,
                              metadata |-> parsedEmails[k].metadata,
                              temporaryEdits |-> edits,
                              rawSize |-> parsedEmails[k].rawSize]>>
    /\ stage' = "selected"
    /\ UNCHANGED <<workerVars, finalEmails, blob, codecVars, serviceVars, app>>

\* exportToMBOX(selection)
Export ==
    /\ stage = "selected"
    /\ LET exported == exportToMBOX(heap, selection)
       IN /\ heap' = exported.heap
          /\ finalEmails' = exported.finalEmails
          /\ blob' = exported.blob
    /\ stage' = "exported"
    /\ UNCHANGED <<workerVars, selection, codecVars, serviceVars, app>>

\* the exported text is handed to the worker as the content of a 'parse' command
Reimport ==
    /\ stage = "exported"
    /\ pc = "done"
    /\ content' = blob
    /\ pc' = "idle"
    /\ stage' = "reimport"
    /\ UNCHANGED <<rawEmails, i, parsedEmails, errors, emailCount, processedBytes,
                   totalBytes, uidCount, faults, outbox, commands, selection, heap,
                   finalEmails, blob, codecVars, serviceVars, app>>

NextExport == OnMessage \/ ParseRecord \/ Complete \/ Select \/ Export \/ Reimport

SpecExport == InitExport /\ [][NextExport]_vars

-----------------------------------------------------------------------------
(* The worker on containers whose lines end in LF, CRLF, CR or a mixture *)

MaxEOLLines == 3

EOLVocabulary == {lnFromA, lnBlank, lnSubjectX, lnBody}

Terminators == {<<LF>>, <<CR, LF>>, <<CR>>}

\* the lines ls, line k ended by terms[k]; the last line is not ended
RECURSIVE joinWith(_, _)
joinWith(ls, terms) ==
    IF Len(ls) = 0 THEN <<>>
    ELSE IF Len(ls) = 1 THEN ls[1]
    ELSE ls[1] \o terms[1] \o joinWith(Tail(ls), Tail(terms))

\* CRLF, CR, LF in turn, starting from the phase-th of them
cycleTerminators(n, phase) ==
    [k \in 1..n |-> CASE (k + phase) % 3 = 0 -> <<CR, LF>>
                       [] (k + phase) % 3 = 1 -> <<CR>>
                       [] OTHER -> <<LF>>]

EOLScenarios == {scTwoEmails, scFolded, scEscaped}

\* short containers under every assignment of line endings, and three scenarios
\* under the three cyclic mixtures
EOLContainers ==
    UNION {{joinWith(ls, terms) : ls \in [1..n -> EOLVocabulary],
                                  terms \in [1..(n - 1) -> Terminators]} :
           n \in 1..MaxEOLLines}
    \cup {joinWith(ls, cycleTerminators(Len(ls) - 1, phase)) :
             ls \in EOLScenarios, phase \in 0..2}

InitEOL ==
    /\ content \in EOLContainers
    /\ WorkerStart
    /\ ExporterStart
    /\ CodecStart
    /\ ServiceStart
    /\ AppStart

NextEOL == OnMessage \/ ParseRecord \/ Complete

SpecEOL == InitEOL /\ [][NextEOL]_vars

-----------------------------------------------------------------------------
(* One worker and its successive 'parse' commands, well-formed or not *)

MaxCommands == 2

CommandScenarios == {<<>>, scTwoEmails, scLeading, scFolded}

\* the data.content of a command: a text, or no string at all
CommandContents == {join(ls, <<LF>>) : ls \in CommandScenarios} \cup {Undefined}

InitCommands ==
    /\ content \in CommandContents
    /\ WorkerStart
    /\ ExporterStart
    /\ CodecStart
    /\ ServiceStart
    /\ AppStart

\* the message of the TypeError that text.replace raises on undefined
TypeErrorMessage == <<"TypeError">>

\* the 'error' message of the catch block of self.onmessage (stack not modelled)
errorMessage(message) == [type |-> "error", data |-> [message |-> message]]

\* self.onmessage with a 'parse' command whose data.content is undefined: a new
\* MBOXParser, then parse throws in normalizeEOL before it has assigned a local or
\* posted a message, and the catch block of onmessage posts 'error'
OnMessageError ==
    /\ pc = "idle"
    /\ content = Undefined
    /\ commands' = commands + 1
    /\ emailCount' = newMBOXParser.emailCount
    /\ errors' = newMBOXParser.errors
    /\ rawEmails' = <<>>
    /\ parsedEmails' = <<>>
    /\ totalBytes' = 0
    /\ processedBytes' = 0
    /\ i' = 0
    /\ outbox' = Append(outbox, errorMessage(TypeErrorMessage))
    /\ pc' = "done"
    /\ UNCHANGED <<content, uidCount, faults, exportVars, codecVars, serviceVars, app>>

\* the worker takes the next 'parse' command of its message queue
NextCommand ==
    /\ pc = "done"
    /\ commands < MaxCommands
    /\ content' \in CommandContents
    /\ pc' = "idle"
    /\ UNCHANGED <<rawEmails, i, parsedEmails, errors, emailCount, processedBytes,
                   totalBytes, uidCount, faults, outbox, commands, exportVars, codecVars,
                   serviceVars, app>>

\* a handler that has been started runs to its end
WorkerRuns == OnMessage \/ OnMessageError \/ ParseRecord \/ Complete

NextCommands == OnMessage \/ OnMessageError \/ ParseRecord \/ Complete \/ NextCommand

\* Weak fairness of WorkerRuns, which is enabled exactly when pc is not "done":
\* the event loop of the worker runs the handler of a queued command, and the
\* handler has no await before its last statement
WorkerFair == []<>(pc = "done") \/ []<><<WorkerRuns>>_vars

SpecCommands == InitCommands /\ [][NextCommands]_vars /\ WorkerFair

-----------------------------------------------------------------------------
(* JavaScript Numbers (IEEE 754 binary64) for the arithmetic of partProgress.
   A positive Number is [m, e]: m its 53 significand bits, most significant
   first and m[1] = 1, and its value is m * 2^e; zero is [m |-> <<>>, e |-> 0].
   Every operation rounds to nearest, ties to even.  Only the finite,
   non-negative, normal Numbers that percentages need are modelled. *)

SignificandBits == 53

\* the binary digits of a natural number, most significant first; <<>> for 0
RECURSIVE bitsOf(_)
bitsOf(n) == IF n = 0 THEN <<>> ELSE Append(bitsOf(n \div 2), n % 2)

RECURSIVE stripZeros(_)
stripZeros(b) == IF b # <<>> /\ b[1] = 0 THEN stripZeros(Tail(b)) ELSE b

shiftLeft(b, s) == b \o [k \in 1..s |-> 0]

\* b * c for a small natural c, from the least significant bit on; acc holds
\* the digits found so far
RECURSIVE mulFrom(_, _, _, _)
mulFrom(b, c, carry, acc) ==
    IF Len(acc) = Len(b) THEN bitsOf(carry) \o acc
    ELSE LET t == b[Len(b) - Len(acc)] * c + carry
         IN mulFrom(b, c, t \div 2, <<t % 2>> \o acc)

mulSmall(b, c) == stripZeros(mulFrom(b, c, 0, <<>>))

\* a + b of two bit sequences of one length, from the least significant bit on
RECURSIVE addFrom(_, _, _, _)
addFrom(a, b, carry, acc) ==
    IF Len(acc) = Len(a) THEN bitsOf(carry) \o acc
    ELSE LET t == a[Len(a) - Len(acc)] + b[Len(a) - Len(acc)] + carry
         IN addFrom(a, b, t \div 2, <<t % 2>> \o acc)

padTo(b, n) == [k \in 1..(n - Len(b)) |-> 0] \o b

addBits(a, b) ==
    LET n == IF Len(a) > Len(b) THEN Len(a) ELSE Len(b)
    IN stripZeros(addFrom(padTo(a, n), padTo(b, n), 0, <<>>))

\* a < b and a <= b for bit sequences without leading zeros
lessBits(a, b) ==
    \/ Len(a) < Len(b)
    \/ /\ Len(a) = Len(b)
       /\ \E k \in 1..Len(a) : a[k] < b[k] /\ \A j \in 1..(k - 1) : a[j] = b[j]

leqBits(a, b) == a = b \/ lessBits(a, b)

\* the long division of the bits by the small natural d, continued behind the
\* binary point until the quotient has SignificandBits + 1 digits from its first 1
RECURSIVE divStream(_, _, _, _, _)
divStream(b, d, pos, rem, out) ==
    IF Len(out) = SignificandBits + 1 THEN [out |-> out, pos |-> pos, rem |-> rem]
    ELSE LET t == 2 * rem + (IF pos + 1 <= Len(b) THEN b[pos + 1] ELSE 0)
             q == IF t >= d THEN 1 ELSE 0
         IN divStream(b, d, pos + 1, t - q * d,
                      IF out = <<>> /\ q = 0 THEN out ELSE Append(out, q))

\* m + 1 for a significand
increment(m, e) ==
    IF \A k \in 1..Len(m) : m[k] = 1
    THEN [m |-> [k \in 1..Len(m) |-> IF k = 1 THEN 1 ELSE 0], e |-> e + 1]
    ELSE LET z == CHOOSE k \in 1..Len(m) : m[k] = 0 /\ \A j \in (k + 1)..Len(m) : m[j] = 1
         IN [m |-> [k \in 1..Len(m) |-> IF k < z THEN m[k] ELSE IF k = z THEN 1 ELSE 0],
             e |-> e]

\* the Number nearest to (b / d) * 2^e, ties to even
roundNumber(b, d, e) ==
    IF \A k \in 1..Len(b) : b[k] = 0 THEN [m |-> <<>>, e |-> 0]
    ELSE LET s == divStream(b, d, 0, 0, <<>>)
             m == SubSeq(s.out, 1, SignificandBits)
             half == s.out[SignificandBits + 1] = 1
             rest == s.rem # 0 \/ \E k \in (s.pos + 1)..Len(b) : b[k] = 1
             ex == e + Len(b) - s.pos + 1
         IN IF half /\ (rest \/ m[SignificandBits] = 1) THEN increment(m, ex)
            ELSE [m |-> m, e |-> ex]

\* a / b of two small naturals
numberOfQuotient(a, b) == roundNumber(bitsOf(a), b, 0)

\* x * c and x / c of a Number and a small natural
numberTimes(x, c) == roundNumber(mulSmall(x.m, c), 1, x.e)

numberOver(x, c) == roundNumber(x.m, c, x.e)

\* x + y of two Numbers
numberPlus(x, y) ==
    IF x.m = <<>> THEN y
    ELSE IF y.m = <<>> THEN x
    ELSE LET lo == IF x.e < y.e THEN x.e ELSE y.e
         IN roundNumber(addBits(shiftLeft(x.m, x.e - lo), shiftLeft(y.m, y.e - lo)), 1, lo)

\* x <= y of two Numbers
numberLeq(x, y) ==
    LET lo == IF x.e < y.e THEN x.e ELSE y.e
    IN leqBits(stripZeros(shiftLeft(x.m, x.e - lo)), stripZeros(shiftLeft(y.m, y.e - lo)))

\* x <= a / b and a / b <= x, a Number against the exact quotient of two naturals
numberLeqQuotient(x, a, b) ==
    LET lo == IF x.e < 0 THEN x.e ELSE 0
    IN leqBits(stripZeros(shiftLeft(mulSmall(x.m, b), x.e - lo)),
               stripZeros(shiftLeft(bitsOf(a), 0 - lo)))

quotientLeqNumber(a, b, x) ==
    LET lo == IF x.e < 0 THEN x.e ELSE 0
    IN leqBits(stripZeros(shiftLeft(bitsOf(a), 0 - lo)),
               stripZeros(shiftLeft(mulSmall(x.m, b), x.e - lo)))

-----------------------------------------------------------------------------
(* EmailService: parseMultipleMBOX over the files, parseMBOX, destroy, and the
   worker behind them.  The caller passes an onProgress callback; calls is the
   record of what the service did towards its worker and its caller. *)

MaxFiles == 2

ServiceScenarios == {<<>>, scTwoEmails, scFolded}

ManyFiles == 6

\* ManyFiles files of one record each
scManyFiles == [k \in 1..ManyFiles |-> join(<<lnFromA>>, <<LF>>)]

\* the result of file.text() of each of the files
FileLists ==
    UNION {[1..n -> {join(ls, <<LF>>) : ls \in ServiceScenarios}] : n \in 0..MaxFiles}
    \cup {scManyFiles}

\* the worker has started and has no command; the service is constructed
InitService ==
    /\ files \in FileLists
    /\ content = <<>>
    /\ pc = "start"
    /\ rawEmails = <<>>
    /\ i = 0
    /\ parsedEmails = <<>>
    /\ errors = <<>>
    /\ emailCount = 0
    /\ processedBytes = 0
    /\ totalBytes = 0
    /\ uidCount = 0
    /\ faults = 0
    /\ outbox = <<>>
    /\ commands = 0
    /\ ExporterStart
    /\ CodecStart
    /\ ServiceConstructed
    /\ AppStart

parseVars == <<rawEmails, i, parsedEmails, errors, emailCount, processedBytes, totalBytes,
               uidCount, faults, outbox, commands>>

\* a defect: destroy drops the reference and leaves the worker running
terminateNot(wasTerminated) == wasTerminated

\* Worker.terminate(): the worker's script is aborted, its queued tasks and the
\* messages it has posted and that are not yet dispatched are discarded
terminate(wasTerminated) == TRUE

\* a defect: the items of a file put before those of the files before it
unshiftAll(all, items) == items \o all

\* all.push(...items)
pushAll(all, items) == all \o items

\* partProgress: ((i / files.length) * 100) + (progress.percent / files.length)
\* the Number the worker has computed as (processedBytes / totalBytes) * 100
percentNumber(percent) ==
    numberTimes(numberOfQuotient(percent.num \div 100, percent.den), 100)

overallPercent(idx, n, percent) ==
    numberPlus(numberTimes(numberOfQuotient(idx, n), 100),
               numberOver(percentNumber(percent), n))

\* the ParseResult parseMultipleMBOX returns; parseTime is not modelled
serviceResult(emails, errs, bytes) ==
    [emails |-> emails,
     errors |-> errs,
     stats |-> [totalEmails |-> Len(emails),
                totalBytes |-> bytes,
                avgEmailSize |-> jsDivide(bytes, Len(emails))]]

\* parseMultipleMBOX is called: with no file it returns at once; otherwise
\* parseMBOX of the first file sets the callbacks, and rejects when there is no
\* worker or goes on to await file.text()
ParseMultipleMBOX ==
    /\ svcPc = "idle"
    /\ IF Len(files) = 0
       THEN /\ svcPc' = "returned"
            /\ calls' = calls \o <<[kind |-> "call"],
                                    [kind |-> "return",
                                     result |-> serviceResult(allEmails, allErrors,
                                                              allBytes)]>>
       ELSE IF worker = Null
       THEN /\ svcPc' = "rejected"
            /\ calls' = calls \o <<[kind |-> "call"], [kind |-> "reject"]>>
       ELSE /\ svcPc' = "reading"
            /\ calls' = Append(calls, [kind |-> "call"])
    /\ UNCHANGED <<content, pc, parseVars, exportVars, codecVars, worker, terminated,
                   delivered, files, fileNo, allEmails, allErrors, allBytes, callVars, app>>

\* parseMBOX after file.text(): this.worker.addEventListener throws when destroy
\* has set the worker to null, and the catch block rejects; otherwise the
\* completeHandler is added and the 'parse' command is posted
PostParse ==
    /\ svcPc = "reading"
    /\ IF worker = Null
       THEN /\ svcPc' = "rejected"
            /\ calls' = Append(calls, [kind |-> "reject"])
            /\ UNCHANGED <<content, pc>>
       ELSE /\ svcPc' = "waiting"
            /\ content' = files[fileNo + 1]
            /\ pc' = "idle"
            /\ calls' = Append(calls, [kind |-> "post", file |-> fileNo,
                                       posted |-> Len(outbox), seen |-> delivered])
    /\ UNCHANGED <<parseVars, exportVars, codecVars, worker, terminated, delivered, files,
                   fileNo, allEmails, allErrors, allBytes, callVars, app>>

\* One message event of the worker is dispatched to the service's listeners.
\* worker.onmessage hands a 'progress' to onProgressCallback, the partProgress of
\* the file being parsed.  The completeHandler of a pending parseMBOX resolves on
\* 'complete': parseMultipleMBOX adds the result to its totals and goes to the
\* next file (parseMBOX up to file.text()) or returns; it rejects on 'error'.
Deliver ==
    /\ ~terminated
    /\ delivered < Len(outbox)
    /\ delivered' = delivered + 1
    /\ LET msg == outbox[delivered + 1]
       IN CASE msg.type = "progress" ->
                 /\ calls' = Append(calls,
                                    [kind |-> "progress", file |-> fileNo,
                                     data |-> [msg EXCEPT
                                                 !.percent = overallPercent(fileNo, Len(files),
                                                                            msg.percent)]])
                 /\ UNCHANGED <<svcPc, fileNo, allEmails, allErrors, allBytes>>
            [] msg.type = "complete" /\ svcPc = "waiting" ->
                 LET emails == pushAll(allEmails, msg.data.emails)
                     errs == pushAll(allErrors, msg.data.errors)
                     bytes == allBytes + msg.data.stats.totalBytes
                     resolved == [kind |-> "resolve", file |-> fileNo]
                 IN /\ allEmails' = emails
                    /\ allErrors' = errs
                    /\ allBytes' = bytes
                    /\ fileNo' = fileNo + 1
                    /\ IF fileNo + 1 >= Len(files)
                       THEN /\ svcPc' = "returned"
                            /\ calls' = calls \o <<resolved,
                                                    [kind |-> "return",
                                                     result |-> serviceResult(emails, errs,
                                                                              bytes)]>>
                       ELSE IF worker = Null
                       THEN /\ svcPc' = "rejected"
                            /\ calls' = calls \o <<resolved, [kind |-> "reject"]>>
                       ELSE /\ svcPc' = "reading"
                            /\ calls' = Append(calls, resolved)
            [] msg.type = "error" /\ svcPc = "waiting" ->
                 /\ svcPc' = "rejected"
                 /\ calls' = Append(calls, [kind |-> "reject"])
                 /\ UNCHANGED <<fileNo, allEmails, allErrors, allBytes>>
            [] OTHER ->
                 UNCHANGED <<svcPc, fileNo, allEmails, allErrors, allBytes, calls>>
    /\ UNCHANGED <<content, pc, parseVars, exportVars, codecVars, worker, terminated, files,
                   callVars, app>>

\* destroy(): the worker, when there is one, is terminated and forgotten
Destroy ==
    /\ worker # Null
    /\ terminated' = terminate(terminated)
    /\ worker' = Null
    /\ calls' = Append(calls, [kind |-> "destroy"])
    /\ UNCHANGED <<content, pc, parseVars, exportVars, codecVars, delivered, svcPc, files,
                   fileNo, allEmails, allErrors, allBytes, callVars, app>>

\* the worker of the service, as long as it is not terminated
WorkerStep == ~terminated /\ (OnMessage \/ ParseRecord \/ Complete)

NextService == ParseMultipleMBOX \/ PostParse \/ Deliver \/ Destroy \/ WorkerStep

SpecService == InitService /\ [][NextService]_vars

-----------------------------------------------------------------------------
(* One MBOXParser and successive calls of its parse, as the unit tests call it
   (const parser = new MBOXParser(); await parser.parse(mbox)) *)

CallContents == {join(ls, <<LF>>) : ls \in CommandScenarios}

\* a parser has been constructed and parse is about to be called with content
InitCalls ==
    /\ content \in CallContents
    /\ WorkerStart
    /\ ExporterStart
    /\ CodecStart
    /\ ServiceStart
    /\ AppStart

\* parse(fileContent) up to its for loop: the framing and the locals; emailCount
\* and errors are fields of the parser and parse does not assign them
ParseCall ==
    /\ pc = "idle"
    /\ commands' = commands + 1
    /\ pc' = "loop"
    /\ rawEmails' = splitMBOX(content)
    /\ parsedEmails' = <<>>
    /\ totalBytes' = Len(content)
    /\ processedBytes' = 0
    /\ i' = 0
    /\ UNCHANGED <<content, emailCount, errors, uidCount, faults, outbox, exportVars,
                   codecVars, serviceVars, app>>

\* the for loop is left and parse returns its ParseResult to the caller
Return ==
    /\ pc = "loop"
    /\ i >= Len(rawEmails)
    /\ pc' = "done"
    /\ UNCHANGED <<content, rawEmails, i, parsedEmails, errors, emailCount,
                   processedBytes, totalBytes, uidCount, faults, outbox, commands,
                   exportVars, codecVars, serviceVars, app>>

\* the caller goes on to call parse of the same parser with another text
CallAgain ==
    /\ pc = "done"
    /\ commands < MaxCommands
    /\ content' \in CallContents
    /\ pc' = "idle"
    /\ UNCHANGED <<rawEmails, i, parsedEmails, errors, emailCount, processedBytes,
                   totalBytes, uidCount, faults, outbox, commands, exportVars, codecVars,
                   serviceVars, app>>

NextCalls == ParseCall \/ ParseRecord \/ Return \/ CallAgain

SpecCalls == InitCalls /\ [][NextCalls]_vars

-----------------------------------------------------------------------------
(* EmailService.parseMBOX called once for each of the files, a call possibly
   before the calls before it have settled; the worker takes the commands
   posted to it one after the other *)

\* the service is constructed, the worker has started, no call yet
MaxCalls == 2

\* the result of file.text() of the file of each call
CallFiles ==
    UNION {[1..n -> {join(<<lnFromA>>, <<LF>>)}] : n \in 0..MaxCalls}

InitParseMBOX ==
    /\ files \in CallFiles
    /\ content = <<>>
    /\ pc = "start"
    /\ rawEmails = <<>>
    /\ i = 0
    /\ parsedEmails = <<>>
    /\ errors = <<>>
    /\ emailCount = 0
    /\ processedBytes = 0
    /\ totalBytes = 0
    /\ uidCount = 0
    /\ faults = 0
    /\ outbox = <<>>
    /\ commands = 0
    /\ ExporterStart
    /\ CodecStart
    /\ ServiceConstructed
    /\ AppStart

\* a defect: the listener stays on the worker
removeNothing(ls, handler) == ls

\* this.worker?.removeEventListener('message', completeHandler)
removeEventListener(ls, handler) == SelectSeq(ls, LAMBDA h : h # handler)

\* every handler of ran has removed itself
RECURSIVE removeEach(_, _)
removeEach(ls, ran) ==
    IF ran = <<>> THEN ls ELSE removeEach(removeEventListener(ls, ran[1]), Tail(ran))

\* resolve(value) or reject(error) of the promise of call k: a promise that has
\* settled stays as it is
settle(ps, k, state, value) ==
    IF ps[k].state \in {"resolved", "rejected"} THEN ps
    ELSE [ps EXCEPT ![k] = [state |-> state, value |-> value]]

RECURSIVE settleEach(_, _, _, _)
settleEach(ps, ran, state, value) ==
    IF ran = <<>> THEN ps
    ELSE settleEach(settle(ps, ran[1], state, value), Tail(ran), state, value)

\* parseMBOX(file, onProgress) up to await file.text(): the callback of the
\* call is stored in the service; without a worker the promise is rejected
ParseMBOX ==
    /\ Len(promises) < Len(files)
    /\ LET k == Len(promises) + 1
       IN /\ onProgressCallback' = <<k>>
          /\ IF worker = Null
             THEN /\ promises' = Append(promises, [state |-> "rejected", value |-> <<>>])
                  /\ calls' = calls \o <<[kind |-> "call", call |-> k],
                                          [kind |-> "reject", call |-> k]>>
             ELSE /\ promises' = Append(promises, [state |-> "reading", value |-> <<>>])
                  /\ calls' = Append(calls, [kind |-> "call", call |-> k])
    /\ UNCHANGED <<content, pc, parseVars, exportVars, codecVars, worker, terminated,
                   delivered, svcPc, files, fileNo, allEmails, allErrors, allBytes, inbox,
                   listeners, app>>

\* parseMBOX after file.text(): addEventListener on a worker that destroy has
\* set to null throws and the catch block rejects; otherwise the completeHandler
\* of the call is added and the 'parse' command is posted
AwaitText ==
    \E k \in 1..Len(promises) :
        /\ promises[k].state = "reading"
        /\ IF worker = Null
           THEN /\ promises' = settle(promises, k, "rejected", <<>>)
                /\ calls' = Append(calls, [kind |-> "reject", call |-> k])
                /\ UNCHANGED <<listeners, inbox>>
           ELSE /\ promises' = [promises EXCEPT ![k].state = "waiting"]
                /\ listeners' = Append(listeners, k)
                /\ inbox' = Append(inbox, files[k])
                /\ calls' = Append(calls, [kind |-> "post", call |-> k])
        /\ UNCHANGED <<content, pc, parseVars, exportVars, codecVars, worker, terminated,
                       delivered, svcPc, files, fileNo, allEmails, allErrors, allBytes,
                       onProgressCallback, app>>

\* the worker has finished its handler and the next message event is dispatched
\* to self.onmessage
Receive ==
    /\ ~terminated
    /\ pc \in {"start", "done"}
    /\ inbox # <<>>
    /\ content' = Head(inbox)
    /\ inbox' = Tail(inbox)
    /\ pc' = "idle"
    /\ UNCHANGED <<parseVars, exportVars, codecVars, worker, terminated, delivered, svcPc,
                   files, fileNo, allEmails, allErrors, allBytes, calls, listeners,
                   onProgressCallback, promises, app>>

\* One message event of the worker is dispatched to worker.onmessage and to every
\* completeHandler on the worker: a 'progress' goes to onProgressCallback, on a
\* 'complete' every handler removes itself and resolves its promise with the
\* data, on an 'error' it removes itself and rejects
Dispatch ==
    /\ ~terminated
    /\ delivered < Len(outbox)
    /\ delivered' = delivered + 1
    /\ LET msg == outbox[delivered + 1]
           settled(kind) == [n \in 1..Len(listeners) |->
                               [kind |-> kind, call |-> listeners[n],
                                message |-> delivered + 1]]
       IN CASE msg.type = "progress" ->
                 /\ calls' = IF onProgressCallback = <<>> THEN calls
                             ELSE Append(calls, [kind |-> "progress",
                                                 call |-> onProgressCallback[1],
                                                 message |-> delivered + 1])
                 /\ UNCHANGED <<listeners, promises>>
            [] msg.type = "complete" ->
                 /\ listeners' = removeEach(listeners, listeners)
                 /\ promises' = settleEach(promises, listeners, "resolved", <<msg.data>>)
                 /\ calls' = calls \o settled("resolve")
            [] OTHER ->
                 /\ listeners' = removeEach(listeners, listeners)
                 /\ promises' = settleEach(promises, listeners, "rejected", <<>>)
                 /\ calls' = calls \o settled("reject")
    /\ UNCHANGED <<content, pc, parseVars, exportVars, codecVars, worker, terminated, svcPc,
                   files, fileNo, allEmails, allErrors, allBytes, inbox, onProgressCallback,
                   app>>

NextParseMBOX == ParseMBOX \/ AwaitText \/ Receive \/ Dispatch \/ Destroy \/ WorkerStep

\* the event loops of the page and of the worker go on: file.text() resolves,
\* a posted message is dispatched, and a handler that has started runs to its end
ParseMBOXFair ==
    /\ WF_vars(AwaitText)
    /\ WF_vars(Receive)
    /\ WF_vars(Dispatch)
    /\ []<>(terminated \/ pc \in {"start", "done"}) \/ []<><<WorkerStep>>_vars

SpecParseMBOX == InitParseMBOX /\ [][NextParseMBOX]_vars /\ ParseMBOXFair

-----------------------------------------------------------------------------
(* App: the upload of a file, the selection and the working set.  The parser of
   an upload is a new MBOXParser, and the user acts on what is rendered: the
   file input is disabled while isLoading, the list and its buttons are there
   only with a parseResult. *)

MaxUploads == 2

scThree == <<lnFromA, lnBlank, lnFromB, lnBlank, lnFromA>>

\* the result of file.text() of an uploaded file
AppContents == {join(ls, <<LF>>) : ls \in {<<>>, scTwoEmails, scThree}}

InitApp ==
    /\ content = <<>>
    /\ pc = "done"
    /\ rawEmails = <<>>
    /\ i = 0
    /\ parsedEmails = <<>>
    /\ errors = <<>>
    /\ emailCount = 0
    /\ processedBytes = 0
    /\ totalBytes = 0
    /\ uidCount = 0
    /\ faults = 0
    /\ outbox = <<>>
    /\ commands = 0
    /\ ExporterStart
    /\ CodecStart
    /\ ServiceStart
    /\ AppStart

\* prevSelected.includes(uid), newWorkingSet.find(wsEmail => wsEmail.uid === uid)
arrayIncludes(arr, x) == \E k \in 1..Len(arr) : arr[k] = x

\* the setSelectedEmails update of handleSelectEmail
toggleSelected(prevSelected, uid) ==
    IF arrayIncludes(prevSelected, uid)
    THEN SelectSeq(prevSelected, LAMBDA id : id # uid)
    ELSE Append(prevSelected, uid)

\* a defect: every selected email pushed, also one that is in the working set
pushSelected(newWorkingSet, emailsToAdd) == newWorkingSet \o emailsToAdd

\* emailsToAdd.forEach: an email is pushed unless the working set has its uid
RECURSIVE pushNew(_, _)
pushNew(newWorkingSet, emailsToAdd) ==
    IF emailsToAdd = <<>> THEN newWorkingSet
    ELSE pushNew(IF arrayIncludes([k \in 1..Len(newWorkingSet) |-> newWorkingSet[k].uid],
                                  emailsToAdd[1].uid)
                 THEN newWorkingSet
                 ELSE Append(newWorkingSet, emailsToAdd[1]),
                 Tail(emailsToAdd))

\* handleFileUpload up to await file.text(): the states are reset
HandleFileUpload ==
    /\ ~app.isLoading
    /\ commands < MaxUploads
    /\ content' \in AppContents
    /\ pc' = "idle"
    /\ app' = [parseResult |-> <<>>, selectedEmails |-> <<>>, workingSet |-> <<>>,
               isLoading |-> TRUE]
    /\ UNCHANGED <<parseVars, exportVars, codecVars, serviceVars>>

\* file.text() has given the text: new MBOXParser() and parse up to its loop
ParseUpload == app.isLoading /\ OnMessage

\* file.text() is rejected: the catch block sets the error, finally isLoading
UploadFails ==
    /\ app.isLoading
    /\ pc = "idle"
    /\ pc' = "done"
    /\ app' = [app EXCEPT !.isLoading = FALSE]
    /\ UNCHANGED <<content, parseVars, exportVars, codecVars, serviceVars>>

\* parse returns: setParseResult(result), and finally setIsLoading(false)
FinishUpload ==
    /\ app.isLoading
    /\ pc = "loop"
    /\ i >= Len(rawEmails)
    /\ pc' = "done"
    /\ app' = [app EXCEPT !.parseResult = <<parseResult>>, !.isLoading = FALSE]
    /\ UNCHANGED <<content, parseVars, exportVars, codecVars, serviceVars>>

\* the checkbox of an email of the list
HandleSelectEmail ==
    /\ app.parseResult # <<>>
    /\ \E n \in 1..Len(app.parseResult[1].emails) :
           app' = [app EXCEPT !.selectedEmails =
                                  toggleSelected(@, app.parseResult[1].emails[n].uid)]
    /\ UNCHANGED <<content, pc, parseVars, exportVars, codecVars, serviceVars>>

\* 'Clear Selection'
ClearSelection ==
    /\ app.parseResult # <<>>
    /\ app.selectedEmails # <<>>
    /\ app' = [app EXCEPT !.selectedEmails = <<>>]
    /\ UNCHANGED <<content, pc, parseVars, exportVars, codecVars, serviceVars>>

\* 'Add to Working Set', shown with a selection
AddToWorkingSet ==
    /\ app.parseResult # <<>>
    /\ app.selectedEmails # <<>>
    /\ LET emailsToAdd == SelectSeq(app.parseResult[1].emails,
                                    LAMBDA email : arrayIncludes(app.selectedEmails,
                                                                 email.uid))
       IN app' = [app EXCEPT !.workingSet = pushNew(@, emailsToAdd)]
    /\ UNCHANGED <<content, pc, parseVars, exportVars, codecVars, serviceVars>>

\* 'Clear' of the working set, shown when it is not empty
ClearWorkingSet ==
    /\ app.parseResult # <<>>
    /\ app.workingSet # <<>>
    /\ app' = [app EXCEPT !.workingSet = <<>>]
    /\ UNCHANGED <<content, pc, parseVars, exportVars, codecVars, serviceVars>>

NextApp ==
    \/ HandleFileUpload
    \/ ParseUpload
    \/ ParseRecord
    \/ UploadFails
    \/ FinishUpload
    \/ HandleSelectEmail
    \/ ClearSelection
    \/ AddToWorkingSet
    \/ ClearWorkingSet

SpecApp == InitApp /\ [][NextApp]_vars

-----------------------------------------------------------------------------
(* What the claims speak of, stated on the container and not through the parser *)

\* the lines of the normalized container
ContainerLines == split(normalizeEOL(content), LF)

\* "From " followed by a non-whitespace token
MatchesFromToken(line) ==
    /\ Len(line) > Len(FromPrefix)
    /\ SubSeq(line, 1, Len(FromPrefix)) = FromPrefix
    /\ line[Len(FromPrefix) + 1] \notin {SP, TAB}

\* the delimiter lines (1-based): the pattern, at line 1 or after an empty line
DelimiterLines ==
    LET lines == ContainerLines
    IN {k \in 1..Len(lines) : MatchesFromToken(lines[k]) /\ (k = 1 \/ lines[k - 1] = <<>>)}

\* the n-th element of a finite set of numbers, in increasing order
Nth(S, n) == CHOOSE d \in S : Cardinality({e \in S : e < d}) = n - 1

\* the lines from the n-th delimiter line up to the line before the next one
RecordLines(n) ==
    LET lines == ContainerLines
        delims == DelimiterLines
    IN SubSeq(lines, Nth(delims, n),
              IF n < Cardinality(delims) THEN Nth(delims, n + 1) - 1 ELSE Len(lines))

CriticalCount(errs) == Cardinality({k \in 1..Len(errs) : errs[k].type = "CRITICAL"})

\* the record indices (0-based) converted so far, without and with an exception
FailedIndices == {errors[k].emailIndex : k \in 1..Len(errors)}
OkIndices == {r \in 0..(i - 1) : r \notin FailedIndices}

\* message m is what the record with the lines ls converts to (but for its ids)
IsMessageOf(m, ls) ==
    LET e == parseEmail(join(ls, <<LF>>), 0, 0, m.uid)
    IN m.headers = e.headers /\ m.body = e.body /\ m.metadata = e.metadata
       /\ m.rawSize = e.rawSize

-----------------------------------------------------------------------------
\* C1: splitMBOX opens a record at a line if and only if the line matches "From "
\* plus a non-whitespace token and is line 0 or follows an empty line: the records
\* are exactly the spans from one such line to the next, so a "From " line that does
\* not follow an empty line stays inside the current record.
C1_DelimiterRule ==
    pc # "idle" =>
        /\ Len(rawEmails) = Cardinality(DelimiterLines)
        /\ \A n \in 1..Len(rawEmails) : rawEmails[n] = join(RecordLines(n), <<LF>>)

\* two records, and a "From " line that follows a non-empty line
C1_Witness ==
    /\ pc # "idle"
    /\ Len(rawEmails) = 2
    /\ \E k \in 2..Len(ContainerLines) :
          MatchesFromToken(ContainerLines[k]) /\ ContainerLines[k - 1] # <<>>

\* C2: when parse has completed, the number of returned emails plus the number of
\* returned CRITICAL errors is the number of delimiter lines of the container, and
\* after each record exactly one of the two has grown by one.
C2_CountInvariant ==
    /\ pc # "idle" => Len(parsedEmails) + CriticalCount(errors) = i
    /\ pc = "done" =>
          LET result == outbox[Len(outbox)].data
          IN Len(result.emails) + CriticalCount(result.errors) = Cardinality(DelimiterLines)

\* a completed parse with a message and a CRITICAL error
C2_Witness ==
    pc = "done" /\ Len(parsedEmails) >= 1 /\ CriticalCount(errors) >= 1

\* C3: the emails are in the order of their delimiter lines: the n-th email is the
\* message of the n-th record that was converted, and the two records of the unit
\* test's container give two messages with the subjects in source order.
C3_SourceOrder ==
    /\ pc # "idle" =>
          /\ Len(parsedEmails) = Cardinality(OkIndices)
          /\ \A n \in 1..Len(parsedEmails) :
                IsMessageOf(parsedEmails[n], RecordLines(Nth(OkIndices, n) + 1))
    /\ (pc = "done" /\ content = join(scTwoEmails, <<LF>>) /\ faults = 0) =>
          /\ Len(parsedEmails) = 2
          /\ parsedEmails[1].metadata.subject = <<"x">>
          /\ parsedEmails[2].metadata.subject = <<"z">>

\* the unit test's container, parsed into its two messages
C3_Witness ==
    /\ pc = "done"
    /\ content = join(scTwoEmails, <<LF>>)
    /\ Len(parsedEmails) = 2
    /\ parsedEmails[1].metadata.subject # parsedEmails[2].metadata.subject

-----------------------------------------------------------------------------
(* The header block and the body of a record, stated on the record's lines *)

\* the lines of the record of the n-th email (C3)
MessageRecord(n) == RecordLines(Nth(OkIndices, n) + 1)

\* position of the first empty line after the delimiter line, 0 when there is none
FirstBlank(ls) ==
    IF \E k \in 2..Len(ls) : ls[k] = <<>>
    THEN CHOOSE k \in 2..Len(ls) : ls[k] = <<>> /\ \A q \in 2..(k - 1) : ls[q] # <<>>
    ELSE 0

\* the lines between the delimiter line and the first empty line (or the end)
HeaderBlock(ls) ==
    SubSeq(ls, 2, IF FirstBlank(ls) = 0 THEN Len(ls) ELSE FirstBlank(ls) - 1)

\* the lines that follow the first empty line
BodyLines(ls) ==
    IF FirstBlank(ls) = 0 THEN <<>> ELSE SubSeq(ls, FirstBlank(ls) + 1, Len(ls))

IsFoldLine(line) == line # <<>> /\ line[1] \in {SP, TAB}

\* "name: value": a colon after a non-empty name without whitespace
IsFieldLine(line) ==
    \E c \in 2..Len(line) :
        line[c] = ":" /\ \A k \in 1..(c - 1) : line[k] \notin {":", SP, TAB}

ColonOf(line) == CHOOSE c \in 1..Len(line) : line[c] = ":" /\ \A k \in 1..(c - 1) : line[k] # ":"

FieldName(line) == toLowerCase(SubSeq(line, 1, ColonOf(line) - 1))

\* not blank, not a continuation, no "name:"
IsMalformedLine(line) == line # <<>> /\ ~IsFoldLine(line) /\ ~IsFieldLine(line)

\* the positions in a header block of the field lines named key
FieldsNamed(block, key) ==
    {j \in 1..Len(block) : IsFieldLine(block[j]) /\ FieldName(block[j]) = key}

\* the continuation lines of the field at position j: those up to the next field
Continuations(block, j) ==
    {q \in (j + 1)..Len(block) :
        IsFoldLine(block[q]) /\ \A r \in (j + 1)..q : ~IsFieldLine(block[r])}

\* a line without its leading spaces and tabs
RECURSIVE StripLead(_)
StripLead(line) ==
    IF line # <<>> /\ line[1] \in {SP, TAB} THEN StripLead(Tail(line)) ELSE line

\* the k + 1 fragments of the field at position j, in source order
Fragments(block, j) ==
    <<StripLead(SubSeq(block[j], ColonOf(block[j]) + 1, Len(block[j])))>>
    \o [n \in 1..Cardinality(Continuations(block, j)) |->
            StripLead(block[Nth(Continuations(block, j), n)])]

\* the value list of a message under a lowercase name, empty when absent
Stored(m, key) ==
    IF \E k \in 1..Len(m.headers) : m.headers[k].name = key
    THEN m.headers[CHOOSE k \in 1..Len(m.headers) : m.headers[k].name = key].values
    ELSE <<>>

NamesOf(m, block) ==
    {m.headers[k].name : k \in 1..Len(m.headers)}
    \cup {FieldName(block[j]) : j \in {q \in 1..Len(block) : IsFieldLine(block[q])}}

-----------------------------------------------------------------------------
\* C4: for every record and every lowercase header name, the list stored under the
\* name has as many values as the header block has field lines of that name, in
\* source order, whether or not a blank line ends the block.
C4_HeaderMultiplicity ==
    \A n \in 1..Len(parsedEmails) :
        LET m == parsedEmails[n]
            block == HeaderBlock(MessageRecord(n))
        IN \A key \in NamesOf(m, block) :
              /\ Len(Stored(m, key)) = Cardinality(FieldsNamed(block, key))
              /\ \A v \in 1..Len(Stored(m, key)) :
                    Stored(m, key)[v]
                        = trim(join(Fragments(block, Nth(FieldsNamed(block, key), v)), <<SP>>))

-----------------------------------------------------------------------------
\* a body line of one or more '>' followed by "From " loses its first '>'
UnescapedLine(line) ==
    IF \E g \in 1..Len(line) :
          /\ \A k \in 1..g : line[k] = ">"
          /\ g + Len(FromPrefix) <= Len(line)
          /\ SubSeq(line, g + 1, g + Len(FromPrefix)) = FromPrefix
    THEN Tail(line) ELSE line

\* C6: body.text is body.raw with exactly one leading '>' removed from every line
\* that is one or more '>' followed by "From ", and every other line unchanged.
C6_Unescape ==
    \A n \in 1..Len(parsedEmails) :
        LET rawLines == split(parsedEmails[n].body.raw, LF)
            textLines == split(parsedEmails[n].body.text, LF)
        IN /\ Len(textLines) = Len(rawLines)
           /\ \A k \in 1..Len(rawLines) : textLines[k] = UnescapedLine(rawLines[k])

\* a body whose second line is ">>From b" and shows as ">From b"
C6_Witness ==
    \E n \in 1..Len(parsedEmails) :
        LET rawLines == split(parsedEmails[n].body.raw, LF)
            textLines == split(parsedEmails[n].body.text, LF)
        IN /\ Len(rawLines) >= 2
           /\ rawLines[2] = lnEsc2
           /\ textLines[2] = Tail(lnEsc2)

\* C7: the raw body of a message is exactly the lines of its record that follow the
\* first blank line after the delimiter line, and is empty when the record has no
\* blank line: no line of the header block is part of it.
C7_BodyAfterBlank ==
    \A n \in 1..Len(parsedEmails) :
        /\ parsedEmails[n].body.raw = join(BodyLines(MessageRecord(n)), <<LF>>)
        /\ parsedEmails[n].body.text
              = join([k \in 1..Len(BodyLines(MessageRecord(n))) |->
                          UnescapedLine(BodyLines(MessageRecord(n))[k])], <<LF>>)

\* the number of lines of the header blocks of the converted records that are not
\* blank, not a continuation and have no colon
RECURSIVE MalformedLines(_)
MalformedLines(n) ==
    IF n = 0 THEN 0
    ELSE MalformedLines(n - 1)
         + Cardinality({j \in 1..Len(HeaderBlock(MessageRecord(n))) :
                            IsMalformedLine(HeaderBlock(MessageRecord(n))[j])})

\* C8: every header-block line that is not blank, not a continuation and has no
\* colon adds one MALFORMED_HEADER error to the result, and the record still gives
\* a message.
C8_MalformedHeaderReported ==
    pc = "done" =>
        LET result == outbox[Len(outbox)].data
        IN /\ Len(result.emails) = Cardinality(OkIndices)
           /\ Cardinality({k \in 1..Len(result.errors) :
                              result.errors[k].type = "MALFORMED_HEADER"})
                 = MalformedLines(Len(result.emails))

\* C9: a record whose conversion throws is left out of emails and reported by one
\* CRITICAL error with its index; the records after it are converted and returned,
\* and the command ends with 'complete', with no 'error' message.
C9_FailureIsolated ==
    /\ Len(errors) = faults
    /\ Cardinality(FailedIndices) = faults
    /\ \A k \in 1..Len(errors) :
          errors[k].type = "CRITICAL" /\ errors[k].emailIndex < i
    /\ pc # "idle" =>
          /\ Len(parsedEmails) = i - faults
          /\ \A n \in 1..Len(parsedEmails) :
                /\ Nth(OkIndices, n) \notin FailedIndices
                /\ IsMessageOf(parsedEmails[n], split(rawEmails[Nth(OkIndices, n) + 1], LF))
    /\ \A k \in 1..Len(outbox) : outbox[k].type # "error"
    /\ pc = "done" =>
          /\ i = Len(rawEmails)
          /\ outbox[Len(outbox)].type = "complete"
          /\ outbox[Len(outbox)].data.errors = errors
          /\ Len(outbox[Len(outbox)].data.emails) = Len(rawEmails) - faults

\* the first record failed and a later one was converted and returned
C9_Witness ==
    /\ pc = "done"
    /\ faults = 1
    /\ errors[1].emailIndex = 0
    /\ Len(outbox[Len(outbox)].data.emails) >= 1

\* C10: when line 0 of a non-empty container is no delimiter, the lines before the
\* first delimiter are emitted as a leading record, and the framing goes on.
C10_LeadingRecord ==
    (pc # "idle" /\ content # <<>> /\ 1 \notin DelimiterLines) =>
        /\ Len(rawEmails) = Cardinality(DelimiterLines) + 1
        /\ rawEmails[1]
              = join(SubSeq(ContainerLines, 1,
                            IF DelimiterLines = {} THEN Len(ContainerLines)
                            ELSE Nth(DelimiterLines, 1) - 1), <<LF>>)

-----------------------------------------------------------------------------
\* C11: an empty container is no error: the framing gives no record, parse returns
\* no email and no error, no 'progress' message is posted, and the one message
\* posted for the command is 'complete'.
C11_EmptyContainer ==
    content = <<>> =>
        /\ pc # "idle" => rawEmails = <<>>
        /\ parsedEmails = <<>> /\ errors = <<>>
        /\ \A k \in 1..Len(outbox) : outbox[k].type \notin {"progress", "error"}
        /\ pc = "done" =>
              /\ Len(outbox) = 1
              /\ outbox[1].type = "complete"
              /\ outbox[1].data.emails = <<>>
              /\ outbox[1].data.errors = <<>>
              /\ outbox[1].data.stats.totalEmails = 0

\* the command completed on the empty container
C11_Witness == content = <<>> /\ pc = "done" /\ Len(outbox) = 1

-----------------------------------------------------------------------------
(* The escape codec *)

\* the lines of a bodyNow, a line ending at LF and at CR
TextLines(t) == split(replaceCR(t), LF)

\* the number of '>' before "From " when the line is '>'* "From ", else -1
QuoteDepth(line) ==
    LET n == runLength(line, 1, {">"})
    IN IF n + Len(FromPrefix) <= Len(line)
          /\ SubSeq(line, n + 1, n + Len(FromPrefix)) = FromPrefix
       THEN n ELSE 0 - 1

\* every line of '>'* "From " has one '>' at least: the bodyNow is an escaped body
IsEscapedBody(t) == \A k \in 1..Len(TextLines(t)) : QuoteDepth(TextLines(t)[k]) # 0

\* C13: for every body bodyNow b, unescapeFromLines(escapeFromLines(b)) is b, and
\* escapeFromLines(b) is b with one '>' more before every line of '>'* "From ".
C13_UnescapeEscape ==
    /\ ops = <<"escape", "unescape">> => bodyNow = bodyIn
    /\ ops = <<"escape">> =>
          /\ Len(TextLines(bodyNow)) = Len(TextLines(bodyIn))
          /\ \A k \in 1..Len(TextLines(bodyIn)) :
                TextLines(bodyNow)[k]
                    = IF QuoteDepth(TextLines(bodyIn)[k]) >= 0
                      THEN <<">">> \o TextLines(bodyIn)[k] ELSE TextLines(bodyIn)[k]

\* a body with "From b" and ">>From b" lines, encoded and decoded again
C13_Witness ==
    /\ ops = <<"escape", "unescape">>
    /\ bodyIn = join(<<lnFromB, lnEsc2, lnBody>>, <<LF>>)
    /\ bodyNow = bodyIn

\* C14, as claimed: for every body bodyNow b, escapeFromLines(unescapeFromLines(b))
\* is b.
C14_EscapeUnescapeAll == ops = <<"unescape", "escape">> => bodyNow = bodyIn

\* C14, amended: for every body bodyNow b in which every line of '>'* "From " has one
\* '>' at least, escapeFromLines(unescapeFromLines(b)) is b.
C14_EscapeUnescape ==
    (ops = <<"unescape", "escape">> /\ IsEscapedBody(bodyIn)) => bodyNow = bodyIn

\* an escaped body with ">From b" and ">>From b" lines, decoded and encoded again
C14_Witness ==
    /\ ops = <<"unescape", "escape">>
    /\ bodyIn = join(<<lnEsc1, lnBody, lnEsc2>>, <<LF>>)
    /\ IsEscapedBody(bodyIn)
    /\ bodyNow = bodyIn

-----------------------------------------------------------------------------
(* The exporter *)

\* the values of a header Map under a name, empty when the name is absent
ValuesIn(table, key) ==
    IF \E k \in 1..Len(table) : table[k].name = key
    THEN table[CHOOSE k \in 1..Len(table) : table[k].name = key].values
    ELSE <<>>

KeysOf(table) == {table[k].name : k \in 1..Len(table)}

\* the message of the parse result that was selected
Original == parsedEmails[CHOOSE k \in 1..Len(parsedEmails) : parsedEmails[k].uid = selection[1].uid]

\* the names an overlay edits, and the value it gives a name
EditedNames(edits) == {edits.entries[k].header : k \in 1..Len(edits.entries)}
NewValue(edits, key) ==
    edits.entries[CHOOSE k \in 1..Len(edits.entries) : edits.entries[k].header = key].newValue

\* C12: a message of parse(X) without overlay edits, exported alone and parsed
\* again, gives exactly one message with the header table, the body text and the
\* metadata of the original.
C12_RoundTrip ==
    (stage = "reimport" /\ pc = "done" /\ ~selection[1].temporaryEdits.present
        /\ errors = <<>>) =>
        /\ Len(parsedEmails) = 1
        /\ parsedEmails[1].headers = heap[selection[1].headers]
        /\ parsedEmails[1].body.text = selection[1].body.text
        /\ parsedEmails[1].metadata = selection[1].metadata

\* C15: after the export the Map of the exported Email has, under every edited
\* name, the one new value, and under every other name the values of the
\* original in the original order of names; the header Map of the selected
\* Email is what parse returned; without an overlay the Email is exported as it is.
C15_OverlayFrame ==
    stage = "exported" =>
        LET edits == selection[1].temporaryEdits
            before == Original.headers
            after == heap[finalEmails[1].headers]
        IN /\ heap[selection[1].headers] = before
           /\ ~edits.present => finalEmails[1] = selection[1]
           /\ KeysOf(after) = KeysOf(before) \cup EditedNames(edits)
           /\ \A key \in EditedNames(edits) : ValuesIn(after, key) = <<NewValue(edits, key)>>
           /\ \A key \in KeysOf(before) \ EditedNames(edits) :
                 ValuesIn(after, key) = ValuesIn(before, key)
           /\ \A k \in 1..Len(before) : after[k].name = before[k].name

\* an Email with a Subject header exported under an overlay that edits the subject
\* and adds a header
C15_Witness ==
    /\ stage = "exported"
    /\ Len(selection[1].temporaryEdits.entries) = 2
    /\ ValuesIn(Original.headers, toLowerCase(hSubject)) = << <<"x">> >>
    /\ ValuesIn(heap[finalEmails[1].headers], toLowerCase(hSubject)) = <<vNew>>
    /\ ValuesIn(heap[finalEmails[1].headers], hNew) = <<vOther>>

-----------------------------------------------------------------------------
(* The metadata *)

\* the value of the field at position j of a header block, as it is stored (C5)
FieldValue(block, j) == trim(join(Fragments(block, j), <<SP>>))

\* C16: the subject of every message is not absent and not empty: it is the value
\* of the first Subject field of the record when that value is not empty, and
\* "(No Subject)" when the record has no Subject field or the value is empty.
C16_Subject ==
    \A n \in 1..Len(parsedEmails) :
        LET block == HeaderBlock(MessageRecord(n))
            fields == FieldsNamed(block, toLowerCase(hSubject))
            subject == parsedEmails[n].metadata.subject
        IN /\ subject # Null
           /\ subject # <<>>
           /\ subject = IF fields # {} /\ FieldValue(block, Nth(fields, 1)) # <<>>
                        THEN FieldValue(block, Nth(fields, 1)) ELSE NoSubject

\* the value the claim gives an entry of an address list: its address when it has
\* one, its trimmed text otherwise
AddressOfEntry(entry) ==
    IF Len(scanAddresses(entry, 1)) > 0 THEN scanAddresses(entry, 1)[1] ELSE trim(entry)

\* one value per entry of the comma-delimited list, in source order
AddressPerEntry(value) ==
    [k \in 1..Len(split(value, ",")) |-> AddressOfEntry(split(value, ",")[k])]

\* C17: from, to and cc have one value per entry of the comma-delimited first
\* header value, in source order: the address of the entry, or its trimmed text
\* when it has none; no entry is dropped.
C17_AddressPerEntry ==
    \A n \in 1..Len(parsedEmails) :
        LET m == parsedEmails[n]
            from == Stored(m, toLowerCase(hFrom))
            to == Stored(m, toLowerCase(hTo))
            cc == Stored(m, toLowerCase(hCc))
        IN /\ (from # <<>> /\ from[1] # <<>>) => m.metadata.from = AddressPerEntry(from[1])
           /\ (to # <<>> /\ to[1] # <<>>) => m.metadata.to = AddressPerEntry(to[1])
           /\ (cc # <<>> /\ cc[1] # <<>>) => m.metadata.cc = AddressPerEntry(cc[1])

IsBracketed(token) == Len(token) >= 2 /\ token[1] = "<" /\ token[Len(token)] = ">"

\* C18: references is the list of the angle-bracketed tokens of the first
\* References value, split on whitespace, in source order with duplicates, and
\* empty without the header; a token that is not angle-bracketed is not in it.
C18_References ==
    \A n \in 1..Len(parsedEmails) :
        LET m == parsedEmails[n]
            stored == Stored(m, toLowerCase(hReferences))
        IN m.metadata.references
              = IF stored = <<>> THEN <<>>
                ELSE SelectSeq(splitSpaces(stored[1], 1, <<>>), IsBracketed)

\* a header table without the entries of a name
RECURSIVE WithoutName(_, _)
WithoutName(table, key) ==
    IF table = <<>> THEN <<>>
    ELSE (IF table[1].name = key THEN <<>> ELSE <<table[1]>>) \o WithoutName(Tail(table), key)

\* C19: a message whose first Date value is no date has date null and the
\* metadata it would have without a Date header; its record is converted like any
\* other, and the only errors are those of the records whose conversion threw.
C19_UnparseableDate ==
    /\ Len(errors) = faults
    /\ pc # "idle" => Len(parsedEmails) = i - faults
    /\ \A n \in 1..Len(parsedEmails) :
          LET m == parsedEmails[n]
              stored == Stored(m, toLowerCase(hDate))
              block == HeaderBlock(MessageRecord(n))
              fields == FieldsNamed(block, toLowerCase(hDate))
          IN /\ (stored # <<>> /\ stored[1] # <<>>
                    /\ \A d \in KnownDates : d.str # stored[1]) =>
                   /\ m.metadata.date = Null
                   /\ m.metadata
                         = extractMetadata(WithoutName(m.headers, toLowerCase(hDate)))
                   /\ IsMessageOf(m, MessageRecord(n))
             /\ (fields # {} /\ \A d \in KnownDates : d.str # FieldValue(block, Nth(fields, 1)))
                   => m.metadata.date = Null

\* a completed parse of a record with a date and a record whose Date is "junk"
C19_Witness ==
    /\ pc = "done"
    /\ content = join(scDates, <<LF>>)
    /\ errors = <<>>
    /\ Len(parsedEmails) = 2
    /\ parsedEmails[1].metadata.date = isoOfDateIso
    /\ Stored(parsedEmails[2], toLowerCase(hDate)) = << <<"j", "u", "n", "k">> >>
    /\ parsedEmails[2].metadata.date = Null

\* C20: stats.avgEmailSize of the result is a number: totalBytes / totalEmails
\* when totalEmails > 0, and 0 when totalEmails is 0.
C20_AvgEmailSize ==
    pc = "done" =>
        LET stats == outbox[Len(outbox)].data.stats
        IN /\ stats.avgEmailSize.kind = "finite"
           /\ stats.totalEmails > 0 =>
                 stats.avgEmailSize.num = stats.totalBytes
                 /\ stats.avgEmailSize.den = stats.totalEmails
           /\ stats.totalEmails = 0 => stats.avgEmailSize.num = 0

-----------------------------------------------------------------------------
(* Line endings, stated on the characters of the container *)

\* text[lo..hi] with every CR that is followed by LF left out and every other CR
\* turned into LF, by halves
RECURSIVE CanonicalRange(_, _, _)
CanonicalRange(text, lo, hi) ==
    IF lo > hi THEN <<>>
    ELSE IF lo = hi
         THEN (IF text[lo] # CR THEN <<text[lo]>>
               ELSE IF lo < Len(text) /\ text[lo + 1] = LF THEN <<>>
               ELSE <<LF>>)
    ELSE LET mid == (lo + hi) \div 2
         IN CanonicalRange(text, lo, mid) \o CanonicalRange(text, mid + 1, hi)

\* the container with each line ending, whatever its form, written as one LF
Canonical(text) == CanonicalRange(text, 1, Len(text))

\* the line endings of a text: "crlf", "cr" and "lf", those that occur
EndingsOf(text) ==
    {IF text[k] = LF THEN (IF k > 1 /\ text[k - 1] = CR THEN "crlf" ELSE "lf")
     ELSE "cr" :
       k \in {q \in 1..Len(text) :
                 \/ text[q] = LF
                 \/ text[q] = CR /\ (q = Len(text) \/ text[q + 1] # LF)}}

\* C21: normalizeEOL writes each CRLF and each lone CR as exactly one LF, keeps
\* every other character and leaves no CR; the records and the messages (header
\* table, body, metadata) of a container are those of the same container with
\* every line ending written as LF, whatever mixture of endings it uses.
C21_LineEndingIndependence ==
    LET canon == Canonical(content)
        recs == splitMBOX(canon)
    IN /\ normalizeEOL(content) = canon
       /\ \A k \in 1..Len(canon) : canon[k] # CR
       /\ pc # "idle" =>
             /\ rawEmails = recs
             /\ Len(parsedEmails) = Cardinality(OkIndices)
             /\ \A n \in 1..Len(parsedEmails) :
                   LET m == parsedEmails[n]
                       e == parseEmail(recs[Nth(OkIndices, n) + 1], Nth(OkIndices, n),
                                       n - 1, m.uid)
                   IN /\ m.headers = e.headers
                      /\ m.body = e.body
                      /\ m.metadata = e.metadata

\* a completed parse of a container that mixes the three line endings and has a
\* message with a header and a body
C21_Witness ==
    /\ pc = "done"
    /\ EndingsOf(content) = {"crlf", "cr", "lf"}
    /\ \E n \in 1..Len(parsedEmails) :
          /\ parsedEmails[n].headers # <<>>
          /\ parsedEmails[n].body.raw # <<>>

-----------------------------------------------------------------------------
(* The progress notifications of one parse call *)

\* the 'progress' messages posted so far, in order
ProgressPosted == SelectSeq(outbox, LAMBDA msg : msg.type = "progress")

-----------------------------------------------------------------------------
(* The messages of a 'parse' command *)

IsTerminal(msg) == msg.type \in {"complete", "error"}

\* the number of terminal messages posted so far
TerminalCount == Cardinality({k \in 1..Len(outbox) : IsTerminal(outbox[k])})

\* the position of the terminal message of the command before the current one,
\* 0 when the current command is the first
CommandStart ==
    LET before == {k \in 1..Len(outbox) :
                     IsTerminal(outbox[k]) /\ (pc = "done" => k < Len(outbox))}
    IN IF before = {} THEN 0 ELSE CHOOSE k \in before : \A q \in before : q <= k

\* the messages of the current command
CommandMessages == SubSeq(outbox, CommandStart + 1, Len(outbox))

\* every command that has been handled has one terminal message, the command
\* being handled has none yet, and nothing follows a terminal message before the
\* next command is taken
OneTerminalEach ==
    /\ \A k \in 1..Len(outbox) : outbox[k].type \in {"progress", "complete", "error"}
    /\ TerminalCount = IF pc = "loop" THEN commands - 1 ELSE commands
    /\ (pc # "loop" /\ commands > 0) => IsTerminal(outbox[Len(outbox)])

\* C23: for each 'parse' command the worker posts 'progress' messages and then
\* exactly one terminal message, 'complete' or 'error', and no message of that
\* command after it; a command that is received gets its terminal message.
C23_OneTerminal == []OneTerminalEach /\ (pc = "idle" ~> pc = "done")

\* two commands handled, one ended by 'error' and one by 'complete' after
\* 'progress' messages
C23_Witness ==
    /\ pc = "done"
    /\ commands = 2
    /\ \E k \in 1..Len(outbox) : outbox[k].type = "error"
    /\ outbox[Len(outbox)].type = "complete"
    /\ Len(CommandMessages) >= 3

-----------------------------------------------------------------------------
(* The service as its caller sees it *)

\* the positions of calls with an entry of the kind
CallsOf(kind) == {k \in 1..Len(calls) : calls[k].kind = kind}

\* the positions of the calls of destroy made while a parse was in flight:
\* parseMultipleMBOX was called and had neither returned nor rejected
DestroysInFlight ==
    {d \in CallsOf("destroy") :
        /\ \E k \in 1..(d - 1) : calls[k].kind = "call"
        /\ \A k \in 1..(d - 1) : calls[k].kind \notin {"return", "reject"}}

\* C24: after destroy() is called while a parse is in flight, the caller's
\* progress callback is not invoked again for that parse and its parseMBOX promise
\* is never resolved with a ParseResult: no result, partial or whole, is
\* committed to the caller.
C24_Cancellation ==
    /\ \A d \in DestroysInFlight : \A k \in (d + 1)..Len(calls) :
          calls[k].kind \notin {"progress", "resolve", "return"}
    /\ DestroysInFlight # {} => svcPc # "returned"

\* destroy was called after a progress callback of the parse, with messages of
\* the worker posted and not yet dispatched, and the worker stopped in its loop
C24_Witness ==
    /\ DestroysInFlight # {}
    /\ svcPc = "waiting"
    /\ CallsOf("progress") # {}
    /\ delivered < Len(outbox)
    /\ pc = "loop"

\* the 'complete' messages posted so far, in order
CompletePosted == SelectSeq(outbox, LAMBDA msg : msg.type = "complete")

\* the sequences rs[1].data.emails, rs[2].data.emails, ... one after the other
RECURSIVE EmailsOfAll(_)
EmailsOfAll(rs) ==
    IF rs = <<>> THEN <<>> ELSE rs[1].data.emails \o EmailsOfAll(Tail(rs))

RECURSIVE ErrorsOfAll(_)
ErrorsOfAll(rs) ==
    IF rs = <<>> THEN <<>> ELSE rs[1].data.errors \o ErrorsOfAll(Tail(rs))

\* the sum of a sequence of numbers
RECURSIVE SumOf(_)
SumOf(ns) == IF ns = <<>> THEN 0 ELSE ns[1] + SumOf(Tail(ns))

\* C27: parseMultipleMBOX posts the 'parse' command of a file only when the
\* terminal message of the file before it has been dispatched and the worker has
\* posted nothing since, and it returns the emails and the errors of the files
\* one after the other in file order, totalEmails the sum of the per-file email
\* counts and totalBytes the sum of the per-file totalBytes.
C27_MultipleInOrder ==
    /\ \A k \in CallsOf("post") :
          /\ calls[k].seen = calls[k].posted
          /\ calls[k].posted = 0 \/ IsTerminal(outbox[calls[k].posted])
          /\ Cardinality({q \in 1..calls[k].posted : IsTerminal(outbox[q])}) = calls[k].file
          /\ Cardinality({q \in CallsOf("post") : q < k}) = calls[k].file
    /\ svcPc = "returned" =>
          LET result == calls[CHOOSE k \in CallsOf("return") : TRUE].result
              perFile == CompletePosted
          IN /\ Len(perFile) = Len(files)
             /\ \A n \in 1..Len(files) : perFile[n].data.stats.totalBytes = Len(files[n])
             /\ result.emails = EmailsOfAll(perFile)
             /\ result.errors = ErrorsOfAll(perFile)
             /\ result.stats.totalEmails =
                   SumOf([n \in 1..Len(perFile) |-> perFile[n].data.stats.totalEmails])
             /\ result.stats.totalBytes =
                   SumOf([n \in 1..Len(perFile) |-> perFile[n].data.stats.totalBytes])

\* two files with emails have been parsed and an error is among the results
C27_Witness ==
    /\ svcPc = "returned"
    /\ Len(files) = 2
    /\ files[1] # files[2]
    /\ CompletePosted[1].data.emails # <<>>
    /\ CompletePosted[2].data.emails # <<>>
    /\ allErrors # <<>>

-----------------------------------------------------------------------------
\* C25: a parse invocation shares no state with the one before it: its errors are
\* errors of its own records, one for each record that gave no message, the count
\* that its progress notifications report as emailsProcessed is the number of its
\* own messages, and its generated ids are numbered from its own first message,
\* whatever an earlier parse call has counted or reported.
C25_NoCarryOver ==
    pc \in {"loop", "done"} =>
        /\ emailCount = Len(parsedEmails)
        /\ Len(errors) = i - Len(parsedEmails)
        /\ \A k \in 1..Len(errors) : errors[k].emailIndex < i
        /\ \A n \in 1..Len(parsedEmails) :
              getHeader(parsedEmails[n].headers, hMessageID) = Null =>
                  parsedEmails[n].messageId = generatedId(n - 1)

-----------------------------------------------------------------------------
\* C26: the messageId of a message is the value of the first Message-ID field of
\* its record when the record has one; otherwise it is the id generated from the
\* number of messages parsed before it in the call, and the generated ids of one
\* call are pairwise distinct.
C26_MessageId ==
    LET idFields(n) == FieldsNamed(HeaderBlock(MessageRecord(n)), toLowerCase(hMessageID))
    IN /\ \A n \in 1..Len(parsedEmails) :
             parsedEmails[n].messageId =
                 IF idFields(n) # {}
                 THEN FieldValue(HeaderBlock(MessageRecord(n)), Nth(idFields(n), 1))
                 ELSE generatedId(n - 1)
       /\ \A n, q \in 1..Len(parsedEmails) :
             (n # q /\ idFields(n) = {} /\ idFields(q) = {}) =>
                 parsedEmails[n].messageId # parsedEmails[q].messageId

-----------------------------------------------------------------------------
\* the lines of the records rs, one record after the other
RECURSIVE LinesOfAll(_)
LinesOfAll(rs) == IF rs = <<>> THEN <<>> ELSE split(rs[1], LF) \o LinesOfAll(Tail(rs))

\* C28: the lines of the normalized container from its first delimiter line on
\* are the lines of the records, one record after the other, each line in one
\* record and in its place, blank lines too; every record begins with a
\* delimiter line; and when line 0 is a delimiter, the records joined by a
\* newline are the normalized container.
C28_LosslessFraming ==
    pc # "idle" =>
        LET lines == ContainerLines
            delims == DelimiterLines
        IN /\ \A n \in 1..Len(rawEmails) : MatchesFromToken(split(rawEmails[n], LF)[1])
           /\ LinesOfAll(rawEmails) =
                 IF delims = {} THEN <<>> ELSE SubSeq(lines, Nth(delims, 1), Len(lines))
           /\ 1 \in delims => join(rawEmails, <<LF>>) = normalizeEOL(content)

\* a container that begins with a delimiter line, of two records with a blank
\* line inside the first and at its end
C28_Witness ==
    /\ pc # "idle"
    /\ 1 \in DelimiterLines
    /\ Len(rawEmails) = 2
    /\ Cardinality({k \in 1..Len(split(rawEmails[1], LF)) :
                       split(rawEmails[1], LF)[k] = <<>>}) >= 2

-----------------------------------------------------------------------------
\* the records (0-based) among those converted so far that are followed by a
\* progress notification: the multiples of 10 and the last record
ReportedRecords == {r \in 0..(i - 1) : r % 10 = 0 \/ r = Len(rawEmails) - 1}

\* the number of characters of the records 0..r
BytesThrough(r) == SumOf([n \in 1..(r + 1) |-> Len(rawEmails[n])])

\* C29: a progress notification is posted after record i exactly when i is a
\* multiple of 10 or the last record, and at no other point; so a parse of a
\* container with a record posts at least one, and the last one follows the
\* final record and precedes the 'complete' message.
C29_ProgressCadence ==
    pc # "idle" =>
        /\ Len(ProgressPosted) = Cardinality(ReportedRecords)
        /\ \A k \in 1..Len(ProgressPosted) :
              ProgressPosted[k].bytesProcessed = BytesThrough(Nth(ReportedRecords, k))
        /\ pc = "done" =>
              /\ outbox = Append(ProgressPosted, outbox[Len(outbox)])
              /\ outbox[Len(outbox)].type = "complete"
              /\ Len(rawEmails) >= 1 =>
                    /\ Len(ProgressPosted) >= 1
                    /\ ProgressPosted[Len(ProgressPosted)].bytesProcessed =
                          BytesThrough(Len(rawEmails) - 1)

\* a completed parse of more than ten records, with a notification after the
\* first record and one after the last
C29_Witness ==
    /\ pc = "done"
    /\ Len(rawEmails) > 10
    /\ Len(ProgressPosted) >= 2

-----------------------------------------------------------------------------
(* Continuation lines and the field they belong to *)

FieldLines(block) == {j \in 1..Len(block) : IsFieldLine(block[j])}

\* the field lines whose field the header loop has closed: all of them when a
\* blank line ends the block, all but the last one when the record ends first
ClosedFields(ls) ==
    LET fields == FieldLines(HeaderBlock(ls))
    IN IF FirstBlank(ls) # 0 THEN fields
       ELSE {j \in fields : \E q \in fields : q > j}

\* the field line at position j and its continuation lines as the header block of
\* a record of their own, ended by a blank line
FieldAlone(block, j) ==
    <<lnFromA, block[j]>>
    \o [n \in 1..Cardinality(Continuations(block, j)) |->
            block[Nth(Continuations(block, j), n)]]
    \o <<lnBlank>>

\* the one value that the field at position j has when it is parsed alone
ValueAlone(block, j) ==
    parseEmail(join(FieldAlone(block, j), <<LF>>), 0, 0, generateUID(0)).headers[1].values[1]

\* C30: a line that starts with a space or a tab is appended to the field in
\* progress only, the field of the nearest field line before it: the header table
\* is the one that each field line gives with its own continuation lines and
\* nothing else, so a continuation line before any field changes nothing, and a
\* line without a colon between a field and a continuation starts no field and
\* takes no continuation.
C30_ContinuationOwner ==
    \A n \in 1..Len(parsedEmails) :
        LET m == parsedEmails[n]
            block == HeaderBlock(MessageRecord(n))
            closed == ClosedFields(MessageRecord(n))
            named(key) == {j \in closed : FieldName(block[j]) = key}
        IN /\ {m.headers[k].name : k \in 1..Len(m.headers)}
                 = {FieldName(block[j]) : j \in closed}
           /\ \A k \in 1..Len(m.headers) :
                 /\ Len(m.headers[k].values) = Cardinality(named(m.headers[k].name))
                 /\ \A v \in 1..Len(m.headers[k].values) :
                       m.headers[k].values[v]
                           = ValueAlone(block, Nth(named(m.headers[k].name), v))

\* a record with a continuation line before its first field and one after a line
\* without a colon, which the field before that line has taken
C30_Witness ==
    /\ pc = "done"
    /\ content = join(scContinuations, <<LF>>)
    /\ Len(parsedEmails) = 1
    /\ Stored(parsedEmails[1], toLowerCase(hSubject))
          = << <<"x", " ", "y">>, <<"z", " ", " ", "y">> >>

-----------------------------------------------------------------------------
(* Overlapping parseMBOX calls *)

\* the calls that have posted their command, in the order of the commands
PostOrder == SelectSeq(calls, LAMBDA e : e.kind = "post")

\* the command (1 for the first posted) that the m-th message of the worker is of
CommandOf(m) == 1 + Cardinality({n \in 1..(m - 1) : IsTerminal(outbox[n])})

\* the call whose command the m-th message of the worker answers
OwnerOf(m) == PostOrder[CommandOf(m)].call

\* the terminal messages of the command that call k has posted
TerminalsOf(k) ==
    {m \in 1..Len(outbox) :
        IsTerminal(outbox[m]) /\ CommandOf(m) <= Len(PostOrder) /\ OwnerOf(m) = k}

SettlesOf(k) == {n \in 1..Len(calls) : calls[n].kind \in {"resolve", "reject"} /\ calls[n].call = k}

\* some call was issued before a call before it had settled
Overlapping ==
    \E a \in CallsOf("call") :
        \E j \in 1..(calls[a].call - 1) : \A n \in SettlesOf(j) : a < n

\* C31: when parseMBOX calls overlap on one service, every progress notification
\* goes to the callback of the call whose file it is about, and every promise
\* resolves with the ParseResult of the command its own call posted.
C31_OwnResult ==
    Overlapping =>
        /\ \A n \in CallsOf("progress") \cup CallsOf("resolve") :
               calls[n].call = OwnerOf(calls[n].message)
        /\ \A k \in 1..Len(promises) :
               promises[k].state = "resolved" =>
                   \E m \in TerminalsOf(k) : promises[k].value = <<outbox[m].data>>

\* the calls that have not settled
InFlight == {k \in 1..Len(promises) : promises[k].state \in {"reading", "waiting"}}

Settled(k) == k <= Len(promises) /\ promises[k].state \in {"resolved", "rejected"}

\* resolve or reject is called at most once for a promise, a settled call has no
\* handler on the worker, and there are no more handlers than calls in flight
SettledOnce ==
    /\ \A k \in 1..Len(promises) : Cardinality(SettlesOf(k)) <= 1
    /\ \A k \in 1..Len(promises) :
           Settled(k) => \A n \in 1..Len(listeners) : listeners[n] # k
    /\ Len(listeners) <= Cardinality(InFlight)

\* C32: every parseMBOX promise settles at most once, settles in the end unless
\* the service is destroyed, and its completeHandler is off the worker when it
\* has settled: never more handlers on the worker than calls in flight.
C32_SettlesOnce ==
    /\ []SettledOnce
    /\ \A k \in 1..MaxCalls : (k <= Len(promises)) ~> (Settled(k) \/ worker = Null)

\* the first call has resolved and its handler is gone, the second is waiting
C32_Witness ==
    /\ Len(promises) = 2
    /\ promises[1].state = "resolved"
    /\ promises[2].state = "waiting"
    /\ listeners = <<2>>
    /\ worker # Null

-----------------------------------------------------------------------------
(* The byte counts of the progress notifications *)

\* C33: in every progress notification bytesProcessed <= totalBytes, so that
\* percent is within 0..100, whatever the container and its line endings; an
\* empty container gives no notification, so percent is never a division by 0.
C33_ProgressWithinTotal ==
    /\ \A k \in 1..Len(ProgressPosted) :
          /\ ProgressPosted[k].bytesProcessed <= Len(content)
          /\ ProgressPosted[k].percent.den = Len(content)
          /\ ProgressPosted[k].percent.den > 0
          /\ ProgressPosted[k].percent.num <= 100 * ProgressPosted[k].percent.den
    /\ Len(content) = 0 => ProgressPosted = <<>>

\* a container with CRLF endings, parsed, whose last notification reports fewer
\* characters than the container has
C33_Witness ==
    /\ pc = "done"
    /\ \E k \in 1..(Len(content) - 1) : content[k] = CR /\ content[k + 1] = LF
    /\ Len(ProgressPosted) >= 1
    /\ ProgressPosted[Len(ProgressPosted)].bytesProcessed < Len(content)

\* the text has LF line endings only
OnlyLF(text) == \A k \in 1..Len(text) : text[k] # CR

\* C34: when the parse of a container that starts with a delimiter line and has
\* LF line endings completes, the last progress notification reports
\* bytesProcessed = totalBytes, that is percent = 100.
C34_LastProgressIsTotal ==
    (pc = "done" /\ OnlyLF(content) /\ FROM_LINE_REGEX(ContainerLines[1])) =>
        /\ Len(ProgressPosted) >= 1
        /\ ProgressPosted[Len(ProgressPosted)].bytesProcessed = Len(content)
        /\ ProgressPosted[Len(ProgressPosted)].percent.num =
              100 * ProgressPosted[Len(ProgressPosted)].percent.den

-----------------------------------------------------------------------------
(* The record count of the progress notifications *)

\* the records 0..r that gave a message
OkThrough(r) == {q \in 0..r : q \notin FailedIndices}

\* C35: the emailsProcessed of the notification posted after record i is the
\* number of messages that the records 0..i have given, at most i + 1, and that
\* of the last notification is stats.totalEmails of the result.
C35_EmailsProcessed ==
    pc # "idle" =>
        /\ \A k \in 1..Len(ProgressPosted) :
              /\ ProgressPosted[k].emailsProcessed =
                    Cardinality(OkThrough(Nth(ReportedRecords, k)))
              /\ ProgressPosted[k].emailsProcessed <= Nth(ReportedRecords, k) + 1
        /\ (pc = "done" /\ Len(ProgressPosted) >= 1) =>
              ProgressPosted[Len(ProgressPosted)].emailsProcessed =
                  outbox[Len(outbox)].data.stats.totalEmails

\* a completed parse with a record that failed and a message, and a
\* notification after each of them
C35_Witness ==
    /\ pc = "done"
    /\ faults = 1
    /\ Len(ProgressPosted) >= 2
    /\ ProgressPosted[Len(ProgressPosted)].emailsProcessed >= 1
    /\ ProgressPosted[Len(ProgressPosted)].emailsProcessed < Len(rawEmails)

-----------------------------------------------------------------------------
(* The overall percent of parseMultipleMBOX *)

\* what the caller's onProgress has been called with, in order
OverallPosted == SelectSeq(calls, LAMBDA e : e.kind = "progress")

Hundred == numberOfQuotient(100, 1)

\* C36: over the n files of parseMultipleMBOX the overall percent given to the
\* caller's progress callback never decreases and never exceeds 100: while file
\* i is parsed it is between 100 * i / n and 100 * (i + 1) / n.
C36_OverallPercent ==
    /\ \A k \in 2..Len(OverallPosted) :
          numberLeq(OverallPosted[k - 1].data.percent, OverallPosted[k].data.percent)
    /\ \A k \in 1..Len(OverallPosted) :
          /\ numberLeq(OverallPosted[k].data.percent, Hundred)
          /\ quotientLeqNumber(100 * OverallPosted[k].file, Len(files),
                               OverallPosted[k].data.percent)
          /\ numberLeqQuotient(OverallPosted[k].data.percent,
                               100 * (OverallPosted[k].file + 1), Len(files))

-----------------------------------------------------------------------------
(* The working set of App *)

\* C37: whatever uploads, selection toggles, 'Add to Working Set' and 'Clear'
\* the user makes, the working set has no two emails of one uid and each of its
\* emails is an email of the parse result that is loaded; when an upload starts
\* the selection and the working set are emptied.
C37_WorkingSet ==
    /\ \A a, b \in 1..Len(app.workingSet) :
          a # b => app.workingSet[a].uid # app.workingSet[b].uid
    /\ \A a \in 1..Len(app.workingSet) :
          /\ app.parseResult # <<>>
          /\ arrayIncludes(app.parseResult[1].emails, app.workingSet[a])
    /\ app.isLoading =>
          /\ app.selectedEmails = <<>>
          /\ app.workingSet = <<>>
          /\ app.parseResult = <<>>

\* the second upload is loaded, two of its emails are in the working set and
\* one of them is selected again
C37_Witness ==
    /\ commands = 2
    /\ ~app.isLoading
    /\ Len(app.workingSet) = 2
    /\ \E k \in 1..Len(app.selectedEmails) :
          app.selectedEmails[k] = app.workingSet[1].uid
====
